---- MODULE Spec2Model ----
(***************************************************************************)
(* A model of zzzwe: the frame loop, the Game object and its entities, the *)
(* two renderer backends of src/index.js, and the stand-alone circle       *)
(* renderers of the WebGL tech demos.                                      *)
(*                                                                         *)
(* Numbers.  JavaScript numbers are modelled as fixed-point numbers with   *)
(* three decimal places: the real v is the integer v * One.  Times are     *)
(* therefore milliseconds, which is the unit of the timestamps the host    *)
(* passes to step().  Products and quotients round towards minus infinity. *)
(* Counters (score, health, accuracy, shootCount, circlesCount, lengths,   *)
(* indices) are plain integers.                                            *)
(***************************************************************************)
EXTENDS Integers, Sequences, FiniteSets

VARIABLES
    game,             \* the fields of the Game object (index.js)
    renderer,         \* the fields of game.renderer (RendererWebGL or Renderer2D)
    localStorage,     \* window.localStorage's "tutorial" item
    loop,             \* the closure of the startup function: start, windowWasResized
    host,             \* the host: clock, window size, pending animation frames
    cir,              \* the circle renderer of a tech demo (instancing or not)
    hist              \* history variables (what happened, for the properties)

vars == <<game, renderer, localStorage, loop, host, cir, hist>>

-----------------------------------------------------------------------------
(* Fixed-point arithmetic *)

One == 1000

UNDEFINED == -1

Abs(x) == IF x < 0 THEN 0 - x ELSE x
Min(a, b) == IF a <= b THEN a ELSE b
Max(a, b) == IF a >= b THEN a ELSE b

\* a * b on fixed-point numbers, without leaving 32 bits
FMul(a, b) == (a \div One) * b + ((a % One) * b) \div One

\* a / b on fixed-point numbers (b > 0)
FDiv(a, b) ==
    IF b <= 2000000
    THEN (a \div b) * One + ((a % b) * One) \div b
    ELSE LET k == (b \div 2000000) + 1
             a1 == a \div k
             b1 == b \div k
         IN (a1 \div b1) * One + ((a1 % b1) * One) \div b1

RECURSIVE ISqrtIter(_, _, _)
ISqrtIter(n, lo, hi) ==
    IF lo >= hi THEN lo
    ELSE LET mid == (lo + hi + 1) \div 2
         IN IF mid * mid <= n THEN ISqrtIter(n, mid, hi)
                              ELSE ISqrtIter(n, lo, mid - 1)

\* Math.sqrt on an integer (rounded down)
ISqrt(n) == ISqrtIter(n, 0, 46340)

\* a lerp that starts from b
lerp_swapped(a, b, t) == b + FMul(a - b, t)

lerp(a, b, t) == a + FMul(b - a, t)

-----------------------------------------------------------------------------
(* class V2 *)

V2(x, y) == [x |-> x, y |-> y]

V2Add(this, that) == V2(this.x + that.x, this.y + that.y)

V2Sub(this, that) == V2(this.x - that.x, this.y - that.y)

V2Scale(this, s) == V2(FMul(this.x, s), FMul(this.y, s))

\* sqrt(x*x + y*y); the squares are taken on a coarser grid when they
\* would not fit 32 bits
V2Len(this) ==
    IF this.y = 0 THEN Abs(this.x)
    ELSE IF this.x = 0 THEN Abs(this.y)
    ELSE LET m == Max(Abs(this.x), Abs(this.y))
             k == IF m <= 30000 THEN 1 ELSE (m \div 30000) + 1
             a == Abs(this.x) \div k
             b == Abs(this.y) \div k
         IN ISqrt(a * a + b * b) * k

\* a normalize that returns the vector as it is
V2DivLen_unscaled(this, n) == IF n = 0 THEN V2(0, 0) ELSE this

\* n === 0 ? new V2(0, 0) : new V2(this.x / n, this.y / n)
V2DivLen(this, n) == IF n = 0 THEN V2(0, 0) ELSE V2(FDiv(this.x, n), FDiv(this.y, n))

V2Normalize(this) == V2DivLen(this, V2Len(this))

V2Dist(this, that) == V2Len(V2Sub(this, that))

\* Math.cos and Math.sin of the angles the model draws (in degrees)
Cos(dir) == CASE dir = 0 -> One [] dir = 90 -> 0 [] dir = 180 -> 0 - One [] dir = 270 -> 0
Sin(dir) == CASE dir = 0 -> 0 [] dir = 90 -> One [] dir = 180 -> 0 [] dir = 270 -> 0 - One

V2Polar(mag, dir) == V2(FMul(Cos(dir), mag), FMul(Sin(dir), mag))

-----------------------------------------------------------------------------
(* class Color *)

Color(r, g, b, a) == [r |-> r, g |-> g, b |-> b, a |-> a]

withAlpha(this, a) == Color(this.r, this.g, this.b, a)

\* the Color that Color.hex returns for the bytes r, g, b of "#rrggbb"
ColorOfBytes(r, g, b) ==
    Color((r * One) \div 255, (g * One) \div 255, (b * One) \div 255, One)

\* Color.hex on a string of character codes.  The regular expression
\* /#([0-9a-z]{2})([0-9a-z]{2})([0-9a-z]{2})/i has no anchors: it matches at
\* the first '#' that six characters of [0-9a-zA-Z] follow.
IsWordChar(c) == c \in 48..57 \/ c \in 97..122 \/ c \in 65..90

IsHexDigit(c) == c \in 48..57 \/ c \in 97..102 \/ c \in 65..70

HexValue(c) == IF c \in 48..57 THEN c - 48 ELSE IF c \in 97..102 THEN c - 87 ELSE c - 55

\* the indices at which the regular expression matches
HexMatches(hexcolor) ==
    {k \in 1..(Len(hexcolor) - 6) :
        /\ hexcolor[k] = 35
        /\ \A i \in 1..6 : IsWordChar(hexcolor[k + i])}

\* parseInt(pair, 16) for two characters of [0-9a-zA-Z]: a prefix "0x" or
\* "0X" is skipped, then the longest prefix of hexadecimal digits is read;
\* NaN (which is -2 here, as for the stored item) if it is empty
ParseIntHex(pair) ==
    IF pair[1] = 48 /\ pair[2] \in {120, 88} THEN 0 - 2
    ELSE IF ~IsHexDigit(pair[1]) THEN 0 - 2
    ELSE IF ~IsHexDigit(pair[2]) THEN HexValue(pair[1])
    ELSE 16 * HexValue(pair[1]) + HexValue(pair[2])

\* parseInt(pair, 16) / 255.0, NaN / 255.0 being NaN
HexComponent(pair) ==
    IF ParseIntHex(pair) = 0 - 2 THEN 0 - 2 ELSE (ParseIntHex(pair) * One) \div 255

\* the match at index k as a Color
ColorOfMatch(hexcolor, k) ==
    Color(HexComponent(SubSeq(hexcolor, k + 1, k + 2)),
          HexComponent(SubSeq(hexcolor, k + 3, k + 4)),
          HexComponent(SubSeq(hexcolor, k + 5, k + 6)), One)

\* Color.hex(hexcolor): the Color it returns, or the Error it throws
Color_hex(hexcolor) ==
    IF HexMatches(hexcolor) # {}
    THEN [thrown |-> FALSE,
          color |-> ColorOfMatch(hexcolor,
                                 CHOOSE k \in HexMatches(hexcolor) :
                                    \A j \in HexMatches(hexcolor) : k <= j)]
    ELSE [thrown |-> TRUE, color |-> Color(0, 0, 0, 0)]

grayScale(this, t) ==
    LET x == (this.r + this.g + this.b) \div 3
    IN Color(lerp(this.r, x, t), lerp(this.g, x, t), lerp(this.b, x, t), this.a)

-----------------------------------------------------------------------------
(* Program constants (index.js) *)

VEC2_COUNT == 2
RGBA_COUNT == 4
DEFAULT_RESOLUTION == [w |-> 3840, h |-> 2160]
PLAYER_COLOR == ColorOfBytes(244, 56, 65)            \* Color.hex("#f43841")
PLAYER_SPEED == 1000 * One
PLAYER_RADIUS == 69 * One
PLAYER_MAX_HEALTH == 100
PLAYER_SHOOT_COOLDOWN == One \div 8                  \* 0.25 / 2.0
PLAYER_TRAIL_RATE == 3 * One
TUTORIAL_POPUP_SPEED == (17 * One) \div 10           \* 1.7
BULLET_RADIUS == 42 * One
BULLET_SPEED == 2000 * One
BULLET_LIFETIME == 5 * One
ENEMY_SPEED == PLAYER_SPEED \div 3
ENEMY_RADIUS == PLAYER_RADIUS
ENEMY_SPAWN_ANIMATION_SPEED == ENEMY_RADIUS * 8
ENEMY_COLOR == ColorOfBytes(158, 149, 199)           \* Color.hex("#9e95c7")
ENEMY_SPAWN_COOLDOWN == 1 * One
ENEMY_SPAWN_GROWTH == (101 * One) \div 100           \* 1.01
ENEMY_SPAWN_DISTANCE == 1500 * One
ENEMY_DESPAWN_DISTANCE == ENEMY_SPAWN_DISTANCE * 2
ENEMY_DAMAGE == PLAYER_MAX_HEALTH \div 5
ENEMY_KILL_HEAL == PLAYER_MAX_HEALTH \div 10
ENEMY_KILL_SCORE == 100
ENEMY_TRAIL_RATE == 2 * One
PARTICLES_COUNT_RANGE == <<0, 50>>
PARTICLE_MAX_LIFETIME == 1 * One
MESSAGE_COLOR == ColorOfBytes(255, 255, 255)         \* Color.hex("#ffffff")
TRAIL_COOLDOWN == One \div 60
CIRCLE_BATCH_CAPACITY == 1024 * 10
LETTER_SLOTS_CAPACITY == 1024
LETTER_SLOT_COUNT == VEC2_COUNT
LETTER_SLOT_CODE == 0
LETTER_SLOT_COL == 1
SLOW_MOTION == 50                                    \* dt /= 50

NEWLINE == 10                                        \* '\n'

-----------------------------------------------------------------------------
(* Strings are sequences of character codes *)

NewlinesOf(text) == {i \in 1..Len(text) : text[i] = NEWLINE}

\* text.split('\n')
Split(text) ==
    LET nl == NewlinesOf(text)
        n  == Cardinality(nl) + 1
        B(k) == IF k = 0 THEN 0
                ELSE IF k = n THEN Len(text) + 1
                ELSE CHOOSE i \in nl : Cardinality({j \in nl : j < i}) = k - 1
    IN [k \in 1..n |-> SubSeq(text, B(k - 1) + 1, B(k) - 1)]

-----------------------------------------------------------------------------
(* The drawing surface: the calls issued on the WebGL context (this.gl,    *)
(* this.ext) or on the 2D context, in order, since the latest clear().     *)

GLCall(call, target, count) == [call |-> call, target |-> target, count |-> count]

-----------------------------------------------------------------------------
(* class RendererWebGL *)

\* A Float32Array is modelled by the prefix of it that has been written;
\* the elements after the prefix are 0.  A write at an index that is not
\* below the array's length is ignored, as typed arrays do.
LetterSlotBufferLength == LETTER_SLOTS_CAPACITY * VEC2_COUNT

RendererWebGL_new ==
    [backend |-> "webgl",
     cameraPos |-> V2(0, 0),
     cameraVel |-> V2(0, 0),
     resolution |-> V2(0, 0),
     unitsPerPixel |-> One,
     grayness |-> UNDEFINED,
     timestamp |-> UNDEFINED,
     circlesCount |-> 0,
     messages |-> <<>>,
     circleCenterBufferData |-> VEC2_COUNT * CIRCLE_BATCH_CAPACITY,
     circleRadiusBufferData |-> CIRCLE_BATCH_CAPACITY,
     circleColorBufferData |-> RGBA_COUNT * CIRCLE_BATCH_CAPACITY,
     letterSlotBufferData |-> <<>>,
     canvas |-> [width |-> 0, height |-> 0],
     viewports |-> 0,
     gl |-> <<>>]

RendererWebGL_setTimestamp(this, timestamp) ==
    [this EXCEPT !.timestamp = timestamp]

\* Math.min(width / DEFAULT_RESOLUTION.w, height / DEFAULT_RESOLUTION.h)
ViewportScale(width, height) ==
    Min((width * One) \div DEFAULT_RESOLUTION.w, (height * One) \div DEFAULT_RESOLUTION.h)

RendererWebGL_setViewport(this, width, height) ==
    [this EXCEPT !.resolution = V2(width * One, height * One),
                 !.unitsPerPixel = FDiv(One, ViewportScale(width, height)),
                 !.viewports = @ + 1]

RendererWebGL_setTarget(this, target) ==
    [this EXCEPT !.cameraVel = V2Sub(target, this.cameraPos)]

\* an update that adds the whole velocity whatever dt is
RendererWebGL_update_unscaled(this, dt) ==
    [this EXCEPT !.cameraPos = V2Add(this.cameraPos, this.cameraVel)]

RendererWebGL_update(this, dt) ==
    [this EXCEPT !.cameraPos = V2Add(this.cameraPos, V2Scale(this.cameraVel, dt))]

\* a clear() that keeps the circles
RendererWebGL_clear_keepsCircles(this) ==
    [this EXCEPT !.messages = <<>>,
                 !.gl = <<GLCall("clear", "COLOR_BUFFER_BIT", 0)>>]

RendererWebGL_clear(this) ==
    [this EXCEPT !.circlesCount = 0,
                 !.messages = <<>>,
                 !.gl = <<GLCall("clear", "COLOR_BUFFER_BIT", 0)>>]

\* "TODO: RendererWebGL.background() is not implemented"
RendererWebGL_background(this) == this

\* The three circle arrays are modelled by their lengths: fillCircle writes
\* at indices below VEC2_COUNT * circlesCount + 2 and RGBA_COUNT *
\* circlesCount + 4, which the guard keeps inside the arrays.
RendererWebGL_fillCircle(this, center, radius, color) ==
    IF this.circlesCount < CIRCLE_BATCH_CAPACITY
    THEN [this EXCEPT !.circlesCount = @ + 1]
    ELSE this

RendererWebGL_fillMessage(this, text, color) ==
    [this EXCEPT !.messages = Append(@, <<text, color>>)]

RendererWebGL_screenToWorld(this, point) ==
    V2Add(V2Scale(V2Sub(point, V2Scale(this.resolution, One \div 2)),
                  this.unitsPerPixel),
          this.cameraPos)

\* The loop of present() over the characters of one line: i runs while
\* i < line.length and i < letterSlotBufferData.length, and stores the code
\* and the column of character i at i * LETTER_SLOT_COUNT.
LetterSlotsOfLine(data, line) ==
    LET iterations == Min(Len(line), LetterSlotBufferLength)
        stored == {k \in 0..(iterations * LETTER_SLOT_COUNT - 1) : k < LetterSlotBufferLength}
        top == Max(Len(data), Cardinality(stored))
    IN [j \in 1..top |->
          IF (j - 1) \in stored
          THEN IF (j - 1) % LETTER_SLOT_COUNT = LETTER_SLOT_CODE
               THEN line[((j - 1) \div LETTER_SLOT_COUNT) + 1]
               ELSE (j - 1) \div LETTER_SLOT_COUNT
          ELSE data[j]]

\* One line of one message: fill the letter slots, upload them, draw.
RECURSIVE PresentLines(_, _, _)
PresentLines(this, lines, row) ==
    IF row > Len(lines) THEN this
    ELSE LET line == lines[row]
             filled == [this EXCEPT
                 !.letterSlotBufferData = LetterSlotsOfLine(@, line),
                 !.gl = @ \o <<GLCall("bufferSubData", "letterSlotBuffer", 0),
                              GLCall("drawArraysInstancedANGLE", "bitmapFontProgram", Len(line))>>]
         IN PresentLines(filled, lines, row + 1)

RECURSIVE PresentMessages(_, _)
PresentMessages(this, m) ==
    IF m > Len(this.messages) THEN this
    ELSE PresentMessages(PresentLines(this, Split(this.messages[m][1]), 1), m + 1)

\* a present() that draws the circles under the background
RendererWebGL_present_circlesFirst(this) ==
    PresentMessages([this EXCEPT
        !.gl = @ \o <<GLCall("bufferSubData", "circleCenterBuffer", 0),
                     GLCall("bufferSubData", "circleRadiusBuffer", 0),
                     GLCall("bufferSubData", "circleColorBuffer", 0),
                     GLCall("uniform1f", "grayness", this.grayness),
                     GLCall("drawArraysInstancedANGLE", "circlesProgram", this.circlesCount),
                     GLCall("drawArrays", "backgroundProgram", 0)>>], 1)

\* lines 576-637: the uploads of the circle buffers, the background, the
\* circles, the messages
RendererWebGL_present(this) ==
    PresentMessages([this EXCEPT
        !.gl = @ \o <<GLCall("bufferSubData", "circleCenterBuffer", 0),
                     GLCall("bufferSubData", "circleRadiusBuffer", 0),
                     GLCall("bufferSubData", "circleColorBuffer", 0),
                     GLCall("drawArrays", "backgroundProgram", 0),
                     GLCall("uniform1f", "grayness", this.grayness),
                     GLCall("drawArraysInstancedANGLE", "circlesProgram", this.circlesCount)>>], 1)

-----------------------------------------------------------------------------
(* class Renderer2D *)

Renderer2D_new ==
    [backend |-> "2d",
     cameraPos |-> V2(0, 0),
     cameraVel |-> V2(0, 0),
     resolution |-> V2(0, 0),
     unitsPerPixel |-> One,
     grayness |-> 0,
     timestamp |-> UNDEFINED,
     circlesCount |-> 0,
     messages |-> <<>>,
     circleCenterBufferData |-> 0,
     circleRadiusBufferData |-> 0,
     circleColorBufferData |-> 0,
     letterSlotBufferData |-> <<>>,
     canvas |-> [width |-> 0, height |-> 0],
     viewports |-> 0,
     gl |-> <<>>]

Renderer2D_update(this, dt) ==
    [this EXCEPT !.cameraPos = V2Add(this.cameraPos, V2Scale(this.cameraVel, dt))]

\* a screenToWorld that measures from the top left corner of the canvas
Renderer2D_screenToWorld_fromCorner(this, point) ==
    V2Add(V2Scale(point, this.unitsPerPixel), this.cameraPos)

Renderer2D_screenToWorld(this, point) ==
    LET width == this.canvas.width * One
        height == this.canvas.height * One
    IN V2Add(V2Scale(V2Sub(point, V2(width \div 2, height \div 2)), this.unitsPerPixel),
             this.cameraPos)

Renderer2D_clear(this) ==
    [this EXCEPT !.gl = <<GLCall("clearRect", "context2d", 0)>>]

Renderer2D_setTarget(this, target) ==
    [this EXCEPT !.cameraVel = V2Sub(target, this.cameraPos)]

Renderer2D_fillCircle(this, center, radius, color) ==
    [this EXCEPT !.gl = Append(@, GLCall("arc", "context2d", this.grayness))]

\* one fillText per line
Renderer2D_fillMessage(this, text, color) ==
    LET lines == Split(text)
    IN [this EXCEPT !.gl = @ \o [i \in 1..Len(lines) |->
                                   GLCall("fillText", "context2d", Len(lines[i]))]]

Renderer2D_setViewport(this, width, height) ==
    [this EXCEPT !.unitsPerPixel = FDiv(One, ViewportScale(width, height)),
                 !.viewports = @ + 1]

\* "Nothing to do."
Renderer2D_present(this) == this

\* "Nothing to do."
Renderer2D_setTimestamp(this, timestamp) == this

\* the hexagonal grid: one stroke per visible cell; the cells are not modelled
Renderer2D_background(this) ==
    [this EXCEPT !.gl = Append(@, GLCall("stroke", "context2d", 0))]

-----------------------------------------------------------------------------
(* The Renderer interface, as Game and step() call it *)

setTimestamp(r, timestamp) ==
    IF r.backend = "webgl" THEN RendererWebGL_setTimestamp(r, timestamp)
                           ELSE Renderer2D_setTimestamp(r, timestamp)
setViewport(r, width, height) ==
    IF r.backend = "webgl" THEN RendererWebGL_setViewport(r, width, height)
                           ELSE Renderer2D_setViewport(r, width, height)
setTarget(r, target) ==
    IF r.backend = "webgl" THEN RendererWebGL_setTarget(r, target)
                           ELSE Renderer2D_setTarget(r, target)
update(r, dt) ==
    IF r.backend = "webgl" THEN RendererWebGL_update(r, dt)
                           ELSE Renderer2D_update(r, dt)
clear(r) ==
    IF r.backend = "webgl" THEN RendererWebGL_clear(r) ELSE Renderer2D_clear(r)
background(r) ==
    IF r.backend = "webgl" THEN RendererWebGL_background(r) ELSE Renderer2D_background(r)
fillCircle(r, center, radius, color) ==
    IF r.backend = "webgl" THEN RendererWebGL_fillCircle(r, center, radius, color)
                           ELSE Renderer2D_fillCircle(r, center, radius, color)
fillMessage(r, text, color) ==
    IF r.backend = "webgl" THEN RendererWebGL_fillMessage(r, text, color)
                           ELSE Renderer2D_fillMessage(r, text, color)
screenToWorld(r, point) ==
    IF r.backend = "webgl" THEN RendererWebGL_screenToWorld(r, point)
                           ELSE Renderer2D_screenToWorld(r, point)
present(r) ==
    IF r.backend = "webgl" THEN RendererWebGL_present(r) ELSE Renderer2D_present(r)

-----------------------------------------------------------------------------
(* Random numbers.  Every Math.random() of one tick is answered from one   *)
(* record drawn for the tick: n is the number of particles of a burst (the *)
(* number of i with i < N), mag, dir, lifetime and radius are those of     *)
(* each of its particles, spawnDir is the direction of a spawned enemy.    *)

Random(n, mag, dir, lifetime, radius, spawnDir) ==
    [n |-> n, mag |-> mag, dir |-> dir, lifetime |-> lifetime, radius |-> radius,
     spawnDir |-> spawnDir]

-----------------------------------------------------------------------------
(* class Trail *)

Trail_new(radius, color, rate) ==
    [trail |-> <<>>, cooldown |-> 0, disabled |-> FALSE,
     radius |-> radius, color |-> color, rate |-> rate]

RECURSIVE Trail_renderFrom(_, _, _)
Trail_renderFrom(this, r, i) ==
    IF i > Len(this.trail) THEN r
    ELSE Trail_renderFrom(this,
            fillCircle(r, this.trail[i].pos, FMul(this.radius, this.trail[i].a),
                       withAlpha(this.color, FMul(One \div 5, this.trail[i].a))),
            i + 1)

Trail_render(this, r) == Trail_renderFrom(this, r, 1)

\* a shift of the first dot only
ShiftFaded_once(dots) ==
    IF Len(dots) > 0 /\ dots[1].a <= 0 THEN Tail(dots) ELSE dots

\* while (this.trail.length > 0 && this.trail[0].a <= 0.0) this.trail.shift()
RECURSIVE ShiftFaded(_)
ShiftFaded(dots) ==
    IF Len(dots) > 0 /\ dots[1].a <= 0 THEN ShiftFaded(Tail(dots)) ELSE dots

Trail_update(this, dt) ==
    LET faded == [i \in 1..Len(this.trail) |->
                    [this.trail[i] EXCEPT !.a = @ - FMul(this.rate, dt)]]
    IN [this EXCEPT !.trail = ShiftFaded(faded), !.cooldown = @ - dt]

Trail_push(this, pos) ==
    IF ~this.disabled /\ this.cooldown <= 0
    THEN [this EXCEPT !.trail = Append(@, [pos |-> pos, a |-> One]),
                      !.cooldown = TRAIL_COOLDOWN]
    ELSE this

-----------------------------------------------------------------------------
(* class Particle, particleBurst *)

Particle_new(pos, vel, lifetime, radius, color) ==
    [pos |-> pos, vel |-> vel, lifetime |-> lifetime, radius |-> radius, color |-> color]

Particle_render(this, r) ==
    fillCircle(r, this.pos, this.radius,
               withAlpha(this.color, FDiv(this.lifetime, PARTICLE_MAX_LIFETIME)))

Particle_update(this, dt) ==
    [this EXCEPT !.pos = V2Add(this.pos, V2Scale(this.vel, dt)),
                 !.lifetime = @ - dt]

particleBurst(particles, center, color, rnd) ==
    particles \o [i \in 1..rnd.n |->
        Particle_new(center, V2Polar(rnd.mag, rnd.dir), rnd.lifetime, rnd.radius, color)]

-----------------------------------------------------------------------------
(* class Enemy *)

Enemy_new(pos) ==
    [pos |-> pos, ded |-> FALSE, radius |-> 0,
     trail |-> Trail_new(ENEMY_RADIUS, ENEMY_COLOR, ENEMY_TRAIL_RATE)]

Enemy_update(this, dt, followPos) ==
    LET vel == V2Scale(V2Normalize(V2Sub(followPos, this.pos)), FMul(ENEMY_SPEED, dt))
        pushed == Trail_push(this.trail, this.pos)
    IN [this EXCEPT
          !.pos = V2Add(this.pos, vel),
          !.trail = Trail_update(pushed, dt),
          !.radius = IF this.radius < ENEMY_RADIUS
                     THEN this.radius + FMul(ENEMY_SPAWN_ANIMATION_SPEED, dt)
                     ELSE ENEMY_RADIUS]

Enemy_render(this, r) ==
    fillCircle(Trail_render(this.trail, r), this.pos, this.radius, ENEMY_COLOR)

-----------------------------------------------------------------------------
(* class Bullet *)

Bullet_new(pos, vel) == [pos |-> pos, vel |-> vel, lifetime |-> BULLET_LIFETIME]

\* a tick that leaves the bullets their lifetime
Bullet_update_ageless(this, dt) ==
    [this EXCEPT !.pos = V2Add(this.pos, V2Scale(this.vel, dt))]

Bullet_update(this, dt) ==
    [this EXCEPT !.pos = V2Add(this.pos, V2Scale(this.vel, dt)),
                 !.lifetime = @ - dt]

Bullet_render(this, r) == fillCircle(r, this.pos, BULLET_RADIUS, PLAYER_COLOR)

-----------------------------------------------------------------------------
(* class TutorialPopup, class Tutorial *)

TutorialState == [LearningMovement |-> 0, LearningShooting |-> 1, Finished |-> 2]

TutorialMessages ==
    << <<87, 65, 83, 68, 32, 116, 111, 32, 109, 111, 118, 101>>,
       <<76, 101, 102, 116, 32, 77, 111, 117, 115, 101, 32, 67, 108, 105, 99, 107,
         32, 116, 111, 32, 115, 104, 111, 111, 116>>,
       <<>> >>

\* JavaScript's array[index]: TutorialMessages[this.state]
MessageAt(state) == TutorialMessages[state + 1]

TutorialPopup_new(text) == [alpha |-> 0, dalpha |-> 0, text |-> text]

TutorialPopup_fadeIn(this) == [this EXCEPT !.dalpha = TUTORIAL_POPUP_SPEED]

TutorialPopup_fadeOut(this) == [this EXCEPT !.dalpha = 0 - TUTORIAL_POPUP_SPEED]

\* The popup after update(dt), and the callback it called, if any
\* (onFadedIn is never set; onFadedOut is set by Tutorial's constructor).
TutorialPopup_update(this, dt) ==
    LET alpha == this.alpha + FMul(this.dalpha, dt)
    IN IF this.dalpha < 0 /\ alpha <= 0
       THEN [popup |-> [this EXCEPT !.dalpha = 0, !.alpha = 0], called |-> "onFadedOut"]
       ELSE IF this.dalpha > 0 /\ alpha >= One
       THEN [popup |-> [this EXCEPT !.dalpha = 0, !.alpha = One], called |-> "onFadedIn"]
       ELSE [popup |-> [this EXCEPT !.alpha = alpha], called |-> "none"]

TutorialPopup_render(this, r) ==
    fillMessage(r, this.text, withAlpha(MESSAGE_COLOR, this.alpha))

\* window.localStorage holds strings; NULL is the absent item
NULL == "null"
NaN == 0 - 2

\* parseInt of the strings the model stores
ParseInt(item) ==
    CASE item = "0" -> 0 [] item = "1" -> 1 [] item = "2" -> 2 [] item = "3" -> 3
      [] OTHER -> NaN

\* String(number) for the numbers setItem is given
ToItem(n) == CASE n = 0 -> "0" [] n = 1 -> "1" [] n = 2 -> "2" [] n = 3 -> "3"

Tutorial_new(storage) ==
    LET state == ParseInt(storage)
        this_state == IF state # NaN /\ 0 <= state /\ state < Len(TutorialMessages)
                      THEN state ELSE 0
    IN [state |-> this_state,
        popup |-> TutorialPopup_fadeIn(TutorialPopup_new(MessageAt(this_state)))]

\* a callback that fades the message of before in again
Tutorial_onFadedOut_stale(this) ==
    [this EXCEPT !.popup = TutorialPopup_fadeIn(this.popup)]

\* this.popup.onFadedOut, set by the constructor
Tutorial_onFadedOut(this) ==
    [this EXCEPT !.popup = TutorialPopup_fadeIn([this.popup EXCEPT !.text = MessageAt(this.state)])]

Tutorial_update(this, dt) ==
    LET u == TutorialPopup_update(this.popup, dt)
        updated == [this EXCEPT !.popup = u.popup]
    IN IF u.called = "onFadedOut" THEN Tutorial_onFadedOut(updated) ELSE updated

Tutorial_render(this, r) == TutorialPopup_render(this.popup, r)

\* a playerMoved that keeps its progress to itself
Tutorial_playerMoved_unsaved(this, storage) ==
    IF this.state = TutorialState.LearningMovement
    THEN [tutorial |-> [this EXCEPT !.popup = TutorialPopup_fadeOut(@), !.state = @ + 1],
          storage |-> storage]
    ELSE [tutorial |-> this, storage |-> storage]

\* playerMoved and playerShot return the tutorial and the stored item
Tutorial_playerMoved(this, storage) ==
    IF this.state = TutorialState.LearningMovement
    THEN [tutorial |-> [this EXCEPT !.popup = TutorialPopup_fadeOut(@), !.state = @ + 1],
          storage |-> ToItem(this.state + 1)]
    ELSE [tutorial |-> this, storage |-> storage]

\* a playerShot that counts in every state before the last
Tutorial_playerShot_anyLesson(this, storage) ==
    IF this.state < TutorialState.Finished
    THEN [tutorial |-> [this EXCEPT !.popup = TutorialPopup_fadeOut(@), !.state = @ + 1],
          storage |-> ToItem(this.state + 1)]
    ELSE [tutorial |-> this, storage |-> storage]

Tutorial_playerShot(this, storage) ==
    IF this.state = TutorialState.LearningShooting
    THEN [tutorial |-> [this EXCEPT !.popup = TutorialPopup_fadeOut(@), !.state = @ + 1],
          storage |-> ToItem(this.state + 1)]
    ELSE [tutorial |-> this, storage |-> storage]

-----------------------------------------------------------------------------
(* class Player *)

Player_new(pos, storage) ==
    [health |-> PLAYER_MAX_HEALTH,
     shooting |-> FALSE,
     lastShoot |-> 0,
     trail |-> Trail_new(PLAYER_RADIUS, PLAYER_COLOR, PLAYER_TRAIL_RATE),
     pos |-> pos,
     accuracy |-> 0,
     shootCount |-> IF ParseInt(storage) = TutorialState.Finished THEN 0 ELSE 0 - 1]

Player_render(this, r) ==
    LET trailed == Trail_render(this.trail, r)
    IN IF this.health > 0 THEN fillCircle(trailed, this.pos, PLAYER_RADIUS, PLAYER_COLOR)
                          ELSE trailed

Player_update(this, dt, vel) ==
    [this EXCEPT !.pos = V2Add(this.pos, V2Scale(vel, dt)),
                 !.trail = Trail_update(Trail_push(this.trail, this.pos), dt)]

\* shootAt once bulletDir is known
Player_shootAlong(this, bulletDir, now) ==
    [player |-> [this EXCEPT !.shootCount = @ + 1, !.lastShoot = now],
     bullet |-> Bullet_new(V2Add(this.pos, V2Scale(bulletDir, PLAYER_RADIUS + BULLET_RADIUS)),
                           V2Scale(bulletDir, BULLET_SPEED))]

\* the player after shootAt(target) at time now, and the bullet it returns
Player_shootAt(this, target, now) ==
    Player_shootAlong(this, V2Normalize(V2Sub(target, this.pos)), now)

Player_damage(this, value) == [this EXCEPT !.health = Max(this.health - value, 0)]

Player_heal(this, value) ==
    IF this.health > 0
    THEN [this EXCEPT !.health = Min(this.health + value, PLAYER_MAX_HEALTH)]
    ELSE this

-----------------------------------------------------------------------------
(* class Game *)

directionMap ==
    [KeyS |-> V2(0, One), KeyW |-> V2(0, 0 - One), KeyA |-> V2(0 - One, 0), KeyD |-> V2(One, 0)]

\* restart() returns the new Game fields and the renderer with its camera reset
Game_restart(r, storage) ==
    [game |-> [player |-> Player_new(V2(0, 0), storage),
               score |-> 0,
               mousePos |-> V2(0, 0),
               pressedKeys |-> {},
               tutorial |-> Tutorial_new(storage),
               bullets |-> <<>>,
               enemies |-> <<>>,
               particles |-> <<>>,
               enemySpawnRate |-> ENEMY_SPAWN_COOLDOWN,
               enemySpawnCooldown |-> ENEMY_SPAWN_COOLDOWN,
               paused |-> FALSE],
     renderer |-> [r EXCEPT !.cameraPos = V2(0, 0), !.cameraVel = V2(0, 0)]]

\* for (let key of this.pressedKeys) if (key in directionMap) vel = vel.add(directionMap[key])
RECURSIVE SumDirections(_)
SumDirections(keys) ==
    IF keys = {} THEN V2(0, 0)
    ELSE LET key == CHOOSE k \in keys : TRUE
         IN V2Add(directionMap[key], SumDirections(keys \ {key}))

\* a bullet loop that leaves the bullet its lifetime
RECURSIVE BulletLoop_keepsBullet(_, _, _, _)
BulletLoop_keepsBullet(g, i, j, rnd) ==
    IF j > Len(g.bullets) THEN g
    ELSE IF V2Dist(g.enemies[i].pos, g.bullets[j].pos) <= BULLET_RADIUS + ENEMY_RADIUS
    THEN BulletLoop_keepsBullet(
            [g EXCEPT
               !.score = @ + ENEMY_KILL_SCORE,
               !.player = LET healed == Player_heal(@, ENEMY_KILL_HEAL)
                          IN IF g.bullets[j].lifetime > 0
                             THEN [healed EXCEPT !.accuracy = @ + 1] ELSE healed,
               !.enemies[i].ded = TRUE,
               !.particles = particleBurst(@, g.enemies[i].pos, ENEMY_COLOR, rnd)],
            i, j + 1, rnd)
    ELSE BulletLoop_keepsBullet(g, i, j + 1, rnd)

\* a bullet loop that leaves an enemy at the first bullet that hits it
RECURSIVE BulletLoop_firstHit(_, _, _, _)
BulletLoop_firstHit(g, i, j, rnd) ==
    IF j > Len(g.bullets) THEN g
    ELSE IF V2Dist(g.enemies[i].pos, g.bullets[j].pos) <= BULLET_RADIUS + ENEMY_RADIUS
    THEN [g EXCEPT
            !.score = @ + ENEMY_KILL_SCORE,
            !.player = LET healed == Player_heal(@, ENEMY_KILL_HEAL)
                       IN IF g.bullets[j].lifetime > 0
                          THEN [healed EXCEPT !.accuracy = @ + 1] ELSE healed,
            !.bullets[j].lifetime = 0,
            !.enemies[i].ded = TRUE,
            !.particles = particleBurst(@, g.enemies[i].pos, ENEMY_COLOR, rnd)]
    ELSE BulletLoop_firstHit(g, i, j + 1, rnd)

\* the inner loop of the collision phase: enemy i against bullets j, j+1, ...
RECURSIVE BulletLoop(_, _, _, _)
BulletLoop(g, i, j, rnd) ==
    IF j > Len(g.bullets) THEN g
    ELSE IF V2Dist(g.enemies[i].pos, g.bullets[j].pos) <= BULLET_RADIUS + ENEMY_RADIUS
    THEN BulletLoop(
            [g EXCEPT
               !.score = @ + ENEMY_KILL_SCORE,
               !.player = LET healed == Player_heal(@, ENEMY_KILL_HEAL)
                          IN IF g.bullets[j].lifetime > 0
                             THEN [healed EXCEPT !.accuracy = @ + 1] ELSE healed,
               !.bullets[j].lifetime = 0,
               !.enemies[i].ded = TRUE,
               !.particles = particleBurst(@, g.enemies[i].pos, ENEMY_COLOR, rnd)],
            i, j + 1, rnd)
    ELSE BulletLoop(g, i, j + 1, rnd)

\* a contact that counts whether the player is alive or not
PlayerCollision_whileDead(g, i, rnd) ==
    IF ~g.enemies[i].ded
       /\ V2Dist(g.enemies[i].pos, g.player.pos) <= PLAYER_RADIUS + ENEMY_RADIUS
    THEN LET damaged == Player_damage(g.player, ENEMY_DAMAGE)
             dead == damaged.health <= 0
         IN [g EXCEPT
               !.player = IF dead THEN [damaged EXCEPT !.trail.disabled = TRUE] ELSE damaged,
               !.enemies = [k \in 1..Len(g.enemies) |->
                              LET e == IF dead THEN [g.enemies[k] EXCEPT !.trail.disabled = TRUE]
                                               ELSE g.enemies[k]
                              IN IF k = i THEN [e EXCEPT !.ded = TRUE] ELSE e],
               !.particles = particleBurst(@, g.enemies[i].pos, PLAYER_COLOR, rnd)]
    ELSE g

\* enemy i against the player
PlayerCollision(g, i, rnd) ==
    IF g.player.health > 0 /\ ~g.enemies[i].ded
       /\ V2Dist(g.enemies[i].pos, g.player.pos) <= PLAYER_RADIUS + ENEMY_RADIUS
    THEN LET damaged == Player_damage(g.player, ENEMY_DAMAGE)
             dead == damaged.health <= 0
         IN [g EXCEPT
               !.player = IF dead THEN [damaged EXCEPT !.trail.disabled = TRUE] ELSE damaged,
               !.enemies = [k \in 1..Len(g.enemies) |->
                              LET e == IF dead THEN [g.enemies[k] EXCEPT !.trail.disabled = TRUE]
                                               ELSE g.enemies[k]
                              IN IF k = i THEN [e EXCEPT !.ded = TRUE] ELSE e],
               !.particles = particleBurst(@, g.enemies[i].pos, PLAYER_COLOR, rnd)]
    ELSE g

\* a loop that checks the player before the bullets
RECURSIVE EnemyLoop_playerFirst(_, _, _)
EnemyLoop_playerFirst(g, i, rnd) ==
    IF i > Len(g.enemies) THEN g
    ELSE LET hit == PlayerCollision(g, i, rnd)
         IN EnemyLoop_playerFirst(IF ~hit.enemies[i].ded THEN BulletLoop(hit, i, 1, rnd) ELSE hit,
                                  i + 1, rnd)

\* for (let enemy of this.enemies) { bullets; player }
RECURSIVE EnemyLoop(_, _, _)
EnemyLoop(g, i, rnd) ==
    IF i > Len(g.enemies) THEN g
    ELSE LET shot == IF ~g.enemies[i].ded THEN BulletLoop(g, i, 1, rnd) ELSE g
         IN EnemyLoop(PlayerCollision(shot, i, rnd), i + 1, rnd)

Game_spawnEnemy(g, dir) ==
    [g EXCEPT !.enemies =
        Append(@, Enemy_new(V2Add(g.player.pos, V2Polar(ENEMY_SPAWN_DISTANCE, dir))))]

\* a tick that integrates and removes nothing
Integrate_unculled(g, dt) ==
    [g EXCEPT
       !.bullets = [k \in 1..Len(g.bullets) |-> Bullet_update(g.bullets[k], dt)],
       !.particles = [k \in 1..Len(g.particles) |-> Particle_update(g.particles[k], dt)],
       !.enemies = [k \in 1..Len(g.enemies) |-> Enemy_update(g.enemies[k], dt, g.player.pos)]]

\* lines 1247-1262: integrate and cull
Integrate(g, dt) ==
    LET bullets == [k \in 1..Len(g.bullets) |-> Bullet_update(g.bullets[k], dt)]
        particles == [k \in 1..Len(g.particles) |-> Particle_update(g.particles[k], dt)]
        enemies == [k \in 1..Len(g.enemies) |-> Enemy_update(g.enemies[k], dt, g.player.pos)]
    IN [g EXCEPT
          !.bullets = SelectSeq(bullets, LAMBDA b : b.lifetime > 0),
          !.particles = SelectSeq(particles, LAMBDA p : p.lifetime > 0),
          !.enemies = SelectSeq(enemies, LAMBDA e :
                          ~e.ded /\ V2Dist(e.pos, g.player.pos) < ENEMY_DESPAWN_DISTANCE)]

\* a spawn timer that pays its debt: one enemy for every period that has run out
RECURSIVE SpawnPhase_catchesUp(_, _, _)
SpawnPhase_catchesUp(g, dt, rnd) ==
    IF g.enemySpawnCooldown - dt > 0 \/ g.tutorial.state # TutorialState.Finished
    THEN IF g.tutorial.state = TutorialState.Finished
         THEN [g EXCEPT !.enemySpawnCooldown = @ - dt]
         ELSE g
    ELSE SpawnPhase_catchesUp(
             [Game_spawnEnemy(g, rnd.spawnDir) EXCEPT
                !.enemySpawnCooldown = g.enemySpawnRate,
                !.enemySpawnRate = FDiv(g.enemySpawnRate, ENEMY_SPAWN_GROWTH)],
             dt - g.enemySpawnCooldown, rnd)

\* a spawn timer that does not wait for the tutorial
SpawnPhase_always(g, dt, rnd) ==
    LET cooldown == g.enemySpawnCooldown - dt
    IN IF cooldown <= 0
       THEN [Game_spawnEnemy(g, rnd.spawnDir) EXCEPT
               !.enemySpawnCooldown = g.enemySpawnRate,
               !.enemySpawnRate = FDiv(g.enemySpawnRate, ENEMY_SPAWN_GROWTH)]
       ELSE [g EXCEPT !.enemySpawnCooldown = cooldown]

\* lines 1264-1271
SpawnPhase(g, dt, rnd) ==
    IF g.tutorial.state = TutorialState.Finished
    THEN LET cooldown == g.enemySpawnCooldown - dt
         IN IF cooldown <= 0
            THEN [Game_spawnEnemy(g, rnd.spawnDir) EXCEPT
                    !.enemySpawnCooldown = g.enemySpawnRate,
                    !.enemySpawnRate = FDiv(g.enemySpawnRate, ENEMY_SPAWN_GROWTH)]
            ELSE [g EXCEPT !.enemySpawnCooldown = cooldown]
    ELSE g

\* a time step that death does not slow
EffectiveDt_fullSpeed(g, dt) == dt

\* the time step update() uses after "if (this.player.health <= 0.0) dt /= 50"
EffectiveDt(g, dt) == IF g.player.health <= 0 THEN dt \div SLOW_MOTION ELSE dt

\* a camera that is integrated before it is retargeted
CameraPhase_updatesFirst(g, r, dt) == setTarget(update(r, dt), g.player.pos)

\* lines 1193-1194: the camera follows the player
CameraPhase(g, r, dt) == update(setTarget(r, g.player.pos), dt)

\* a velocity that is not normalized
MoveVelocity_perAxis(g) ==
    V2Scale(SumDirections(g.pressedKeys \cap DOMAIN directionMap), PLAYER_SPEED)

\* lines 1196-1201: the velocity the pressed keys ask for
MoveKeys(g) == g.pressedKeys \cap DOMAIN directionMap

MoveVelocity(g) == V2Scale(V2Normalize(SumDirections(MoveKeys(g))), PLAYER_SPEED)

\* lines 1203-1205: if (moved) this.tutorial.playerMoved()
MoveTutorial(g, storage) ==
    IF MoveKeys(g) # {} THEN Tutorial_playerMoved(g.tutorial, storage)
                        ELSE [tutorial |-> g.tutorial, storage |-> storage]

\* lines 1210-1214: continuous fire of the player, who has been updated
FirePhase(g, player, r, now) ==
    IF player.shooting /\ now - player.lastShoot > PLAYER_SHOOT_COOLDOWN
    THEN [g EXCEPT !.player = Player_shootAt(player, screenToWorld(r, g.mousePos), now).player,
                   !.bullets = Append(@, Player_shootAt(player, screenToWorld(r, g.mousePos),
                                                        now).bullet)]
    ELSE [g EXCEPT !.player = player]

\* lines 1196-1214: movement, continuous fire
MovePhase(g, r, dt, now, storage) ==
    [game |-> FirePhase([g EXCEPT !.tutorial = MoveTutorial(g, storage).tutorial],
                        Player_update(g.player, dt, MoveVelocity(g)), r, now),
     storage |-> MoveTutorial(g, storage).storage]

\* lines 1216-1271, after the movement: tutorial, collisions, integration, spawn
TickAfterMove(moved, camera, dt, rnd) ==
    [game |-> SpawnPhase(Integrate(EnemyLoop([moved.game EXCEPT
                                                !.tutorial = Tutorial_update(@, dt)], 1, rnd),
                                   dt), dt, rnd),
     renderer |-> camera,
     storage |-> moved.storage]

\* lines 1193-1271: an unpaused tick with the effective time step dt
Tick(g, r, dt, now, rnd, storage) ==
    TickAfterMove(MovePhase(g, r, dt, now, storage), r, dt, rnd)

\* the grayness of the health the tick has left
GrayOfOutcome(t) ==
    [t EXCEPT !.renderer = [@ EXCEPT !.grayness =
                              One - (t.game.player.health * One) \div PLAYER_MAX_HEALTH]]

\* an update(dt) that computes the grayness at its end
Game_update_grayLast(g, r, dt, now, rnd, storage) ==
    IF g.paused
    THEN [game |-> g, renderer |-> [r EXCEPT !.grayness = One], storage |-> storage]
    ELSE GrayOfOutcome(Tick(g, CameraPhase(g, r, EffectiveDt(g, dt)),
                            EffectiveDt(g, dt), now, rnd, storage))

\* an update(dt) whose tutorial popup goes on fading while the game is paused
Game_update_popupRuns(g, r, dt, now, rnd, storage) ==
    IF g.paused
    THEN [game |-> [g EXCEPT !.tutorial = Tutorial_update(@, dt)],
          renderer |-> [r EXCEPT !.grayness = One], storage |-> storage]
    ELSE Tick(g,
              CameraPhase(g, [r EXCEPT !.grayness =
                                 One - (g.player.health * One) \div PLAYER_MAX_HEALTH],
                          EffectiveDt(g, dt)),
              EffectiveDt(g, dt), now, rnd, storage)

\* update(dt) at time now, with the random numbers rnd: the Game fields, the
\* renderer and the stored item afterwards
Game_update(g, r, dt, now, rnd, storage) ==
    IF g.paused
    THEN [game |-> g, renderer |-> [r EXCEPT !.grayness = One], storage |-> storage]
    ELSE Tick(g,
              CameraPhase(g, [r EXCEPT !.grayness =
                                 One - (g.player.health * One) \div PLAYER_MAX_HEALTH],
                          EffectiveDt(g, dt)),
              EffectiveDt(g, dt), now, rnd, storage)

\* entity.render(this.renderer): the class of the entity chooses the method
Entity_render(entity, r) ==
    IF "ded" \in DOMAIN entity THEN Enemy_render(entity, r)
    ELSE IF "color" \in DOMAIN entity THEN Particle_render(entity, r)
    ELSE Bullet_render(entity, r)

RECURSIVE renderEntities(_, _, _)
renderEntities(entities, r, i) ==
    IF i > Len(entities) THEN r
    ELSE renderEntities(entities, Entity_render(entities[i], r), i + 1)

RECURSIVE Digits(_)
Digits(n) == IF n < 10 THEN <<48 + n>> ELSE Append(Digits(n \div 10), 48 + (n % 10))

\* `${n}` for an integer n
NumberToString(n) == IF n < 0 THEN <<45>> \o Digits(0 - n) ELSE Digits(n)

PausedMessage ==
    <<80, 65, 85, 83, 69, 68, 32, 40, 83, 80, 65, 67, 69, 32, 116, 111, 32, 114, 101,
      115, 117, 109, 101, 41>>

\* a percentage that is rounded down
AccuracyPercent_floor(player) ==
    (100 * player.accuracy) \div Max(player.shootCount, 1)

\* Math.ceil(100 * accuracy / Math.max(shootCount, 1.0))
AccuracyPercent(player) ==
    LET d == Max(player.shootCount, 1)
    IN (100 * player.accuracy + d - 1) \div d

GameOverMessage(score, accuracy) ==
    <<89, 79, 85, 82, 32, 83, 67, 79, 82, 69, 58, 32>> \o NumberToString(score)
    \o <<10, 65, 67, 67, 85, 82, 65, 67, 89, 58, 32>> \o NumberToString(accuracy)
    \o <<37, 10, 40, 83, 80, 65, 67, 69, 32, 116, 111, 32, 114, 101, 115, 116, 97, 114, 116, 41>>

\* the body of render(): the renderer after clear, background, the entities,
\* one message and present
Game_renderPasses(g, r) ==
    LET cleared == background(clear(r))
        player == Player_render(g.player, cleared)
        bullets == renderEntities(g.bullets, player, 1)
        particles == renderEntities(g.particles, bullets, 1)
        enemies == renderEntities(g.enemies, particles, 1)
        message ==
            IF g.paused THEN fillMessage(enemies, PausedMessage, MESSAGE_COLOR)
            ELSE IF g.player.health <= 0
            THEN fillMessage(enemies, GameOverMessage(g.score, AccuracyPercent(g.player)),
                             MESSAGE_COLOR)
            ELSE Tutorial_render(g.tutorial, enemies)
    IN present(message)

\* a render() that consumes the dots of the player's trail it has drawn
Game_render_consumesTrail(g, r) ==
    [game |-> [g EXCEPT !.player.trail.trail = <<>>], renderer |-> Game_renderPasses(g, r)]

\* render(): the Game fields (render assigns none) and the renderer afterwards
Game_render(g, r) ==
    [game |-> g, renderer |-> Game_renderPasses(g, r)]

Game_togglePause(g) == [g EXCEPT !.paused = ~g.paused]

\* a keyDown whose restart is not followed by a return
Game_keyDown_noReturn(g, r, code, storage) ==
    LET started == IF g.player.health <= 0 /\ code = "Space"
                   THEN Game_restart(r, storage) ELSE [game |-> g, renderer |-> r]
        toggled == IF code = "Space" THEN Game_togglePause(started.game) ELSE started.game
    IN [game |-> [toggled EXCEPT !.pressedKeys = @ \cup {code}], renderer |-> started.renderer]

\* keyDown returns the Game fields and the renderer (restart resets its camera)
Game_keyDown(g, r, code, storage) ==
    IF g.player.health <= 0 /\ code = "Space"
    THEN Game_restart(r, storage)
    ELSE LET toggled == IF code = "Space" THEN Game_togglePause(g) ELSE g
         IN [game |-> [toggled EXCEPT !.pressedKeys = @ \cup {code}], renderer |-> r]

Game_keyUp(g, code) == [g EXCEPT !.pressedKeys = @ \ {code}]

Game_mouseMove(g, offset) == [g EXCEPT !.mousePos = offset]

\* lines 1340-1343: the player has shot, the bullet joins the others
FirstShot(g, shot) == [g EXCEPT !.player = shot.player, !.bullets = Append(@, shot.bullet)]

\* mouseDown returns the Game fields and the stored item
Game_mouseDown(g, r, offset, now, storage) ==
    IF g.paused \/ g.player.health <= 0
    THEN [game |-> g, storage |-> storage]
    ELSE [game |-> FirstShot([g EXCEPT
                                !.tutorial = Tutorial_playerShot(g.tutorial, storage).tutorial,
                                !.mousePos = offset],
                             Player_shootAt([g.player EXCEPT !.shooting = TRUE],
                                            screenToWorld(r, offset), now)),
          storage |-> Tutorial_playerShot(g.tutorial, storage).storage]

Game_mouseUp(g) == [g EXCEPT !.player.shooting = FALSE]

-----------------------------------------------------------------------------
(* The startup function and step(), lines 1357-1448 *)

\* what render() was called on: the Game fields and the camera
Seen(g, r) == [game |-> g, cameraPos |-> r.cameraPos, cameraVel |-> r.cameraVel]

\* lines 1391-1395: timestamp - start, where start is timestamp the first time
DeltaTime(l, timestamp) == timestamp - (IF l.start = UNDEFINED THEN timestamp ELSE l.start)

\* a frame that sets the viewport whether the window was resized or not
Prepared_everyFrame(r, l, h, timestamp) ==
    [setViewport(setTimestamp([r EXCEPT !.viewports = 0], timestamp),
                 h.innerWidth, h.innerHeight) EXCEPT
       !.canvas = [width |-> h.innerWidth, height |-> h.innerHeight]]

\* lines 1397-1403: setTimestamp and, after a resize, setViewport; the field
\* viewports of the renderer counts the setViewport calls of the frame
Prepared(r, l, h, timestamp) ==
    IF l.windowWasResized
    THEN [setViewport(setTimestamp([r EXCEPT !.viewports = 0], timestamp),
                      h.innerWidth, h.innerHeight) EXCEPT
            !.canvas = [width |-> h.innerWidth, height |-> h.innerHeight]]
    ELSE setTimestamp([r EXCEPT !.viewports = 0], timestamp)

\* the state step() leaves: the callback was taken from the host's queue
\* when it started and window.requestAnimationFrame(step) queues it again
StepRecord(g, r, storage, seen, l, h, timestamp) ==
    [game |-> g,
     renderer |-> r,
     loop |-> [start |-> timestamp, windowWasResized |-> FALSE],
     host |-> [h EXCEPT !.clock = timestamp, !.pendingFrames = (@ - 1) + 1],
     storage |-> storage,
     dt |-> DeltaTime(l, timestamp),
     seen |-> seen]

\* lines 1405-1409 once game.update(dt) has returned
RenderUpdated(updated, l, h, timestamp) ==
    StepRecord(Game_render(updated.game, updated.renderer).game,
               Game_render(updated.game, updated.renderer).renderer,
               updated.storage, Seen(updated.game, updated.renderer), l, h, timestamp)

\* an update of what has been rendered
UpdateRendered(rendered, l, h, storage, timestamp, rnd) ==
    StepRecord(Game_update(rendered.game, rendered.renderer, DeltaTime(l, timestamp),
                           timestamp, rnd, storage).game,
               Game_update(rendered.game, rendered.renderer, DeltaTime(l, timestamp),
                           timestamp, rnd, storage).renderer,
               Game_update(rendered.game, rendered.renderer, DeltaTime(l, timestamp),
                           timestamp, rnd, storage).storage,
               Seen(rendered.game, rendered.renderer), l, h, timestamp)

\* a step() that renders before it updates
step_rendersFirst(g, r, l, h, storage, timestamp, rnd) ==
    UpdateRendered(Game_render(g, Prepared(r, l, h, timestamp)), l, h, storage, timestamp, rnd)

\* step(timestamp) on the whole state: g, r, the closure l, the host h and the
\* stored item
step(g, r, l, h, storage, timestamp, rnd) ==
    RenderUpdated(Game_update(g, Prepared(r, l, h, timestamp), DeltaTime(l, timestamp),
                              timestamp, rnd, storage),
                  l, h, timestamp)

\* what the collision loop of line 1218 reads of the Game that reaches it,
\* and the time step of the tick
EntryOf(g, dt) ==
    [live |-> TRUE, dt |-> dt, score |-> g.score, health |-> g.player.health,
     accuracy |-> g.player.accuracy, playerPos |-> g.player.pos,
     enemies |-> [i \in 1..Len(g.enemies) |-> g.enemies[i].pos],
     bullets |-> g.bullets, particles |-> g.particles]

\* update() returns before the loop when the game is paused
NoEntry ==
    [live |-> FALSE, dt |-> 0, score |-> 0, health |-> 0, accuracy |-> 0,
     playerPos |-> V2(0, 0),
     enemies |-> <<>>, bullets |-> <<>>, particles |-> <<>>]

\* lines 1181-1216 of update(dt) in step(timestamp): the Game on entering the
\* collision loop
Entering(g, r, l, h, storage, timestamp) ==
    IF g.paused THEN NoEntry
    ELSE EntryOf(MovePhase(g, CameraPhase(g, Prepared(r, l, h, timestamp),
                                          EffectiveDt(g, DeltaTime(l, timestamp))),
                           EffectiveDt(g, DeltaTime(l, timestamp)), timestamp, storage).game,
                 EffectiveDt(g, DeltaTime(l, timestamp)))

\* a listener that lets the game run on
OnBlur_ignored(g) == g

\* a listener that pauses the game whether the player is alive or not
OnBlur_whenDead(g) == [g EXCEPT !.paused = TRUE]

\* the 'blur' listener
OnBlur(g) == IF g.player.health > 0 THEN [g EXCEPT !.paused = TRUE] ELSE g

\* the 'focus' listener: start = performance.now() - 1000 / 60
OnFocus(l, now) == [l EXCEPT !.start = now - (1000 * One) \div (60 * One)]

\* the 'resize' listener
OnResize(l) == [l EXCEPT !.windowWasResized = TRUE]

\* "(pointer: coarse)": game.tutorial.playerMoved() at startup
CoarsePointer(g, storage) ==
    LET tm == Tutorial_playerMoved(g.tutorial, storage)
    IN [game |-> [g EXCEPT !.tutorial = tm.tutorial], storage |-> tm.storage]

-----------------------------------------------------------------------------
(* class CircleInstancingRenderer (the instancing tech demo) *)

CircleInstancingRenderer_new(capacity) ==
    [count |-> 0,
     capacity |-> capacity,
     circleCenterBufferData |-> VEC2_COUNT * capacity,
     circleRadiusBufferData |-> capacity,
     circleColorBufferData |-> RGBA_COUNT * capacity]

\* a pushCircle that does not look at the capacity
CircleInstancingRenderer_pushCircle_unguarded(this, center, radius, color) ==
    [this EXCEPT !.count = @ + 1]

CircleInstancingRenderer_pushCircle(this, center, radius, color) ==
    IF this.count < this.capacity THEN [this EXCEPT !.count = @ + 1] ELSE this

CircleInstancingRenderer_clear(this) == [this EXCEPT !.count = 0]

-----------------------------------------------------------------------------
(* Bounds and inputs of the model *)

MaxFrames == 3          \* frames of one run of the game
MaxEvents == 2          \* input events of one run of the game
MaxBurst == 1           \* particles of one burst
MaxCapacity == 3        \* capacity a CircleInstancingRenderer is built with
MaxOverflow == 2        \* pushes after the batch is full
MaxCircles == 2         \* fillCircle calls between two clear() in SpecPresent
MaxMessages == 2        \* fillMessage calls between two clear()
MaxPresents == 2        \* present() calls between two clear()
ExtraLetters == 1       \* characters of the longest line beyond LETTER_SLOTS_CAPACITY
MaxUpdates == 3         \* camera updates after setTarget in SpecCamera
MaxDeathFrames == 10    \* frames of one run of SpecDeath
MaxDeathEvents == 1     \* input events of one run of SpecDeath
MaxReloadFrames == 10   \* frames of one run of SpecReload
MaxReloadEvents == 2    \* input events and reloads of one run of SpecReload
MaxTrailUpdates == 5    \* Trail.update calls of one run of SpecTrail
MaxTrailPushes == 4     \* Trail.push calls of one run of SpecTrail
MaxStartupFrames == 2   \* frames of one run of SpecStartup
MaxStartupEvents == 2   \* input events of one run of SpecStartup
MaxMoveFrames == 3      \* frames of one run of SpecMove
MaxMoveEvents == 4      \* key events of one run of SpecMove
MaxHexLength == 8       \* characters of a string given to Color.hex
MaxFocusEvents == 2     \* input events of one run of SpecFocus
MaxCombatFrames == 4    \* frames of one run of SpecCombat
MaxCombatEvents == 2    \* input events of one run of SpecCombat
MaxCombatBurst == 2     \* particles of one burst in SpecCombat

Advances == {100, 500}                      \* ms between two frames
Keys == {"KeyW", "KeyD", "Space"}
Offsets == {V2(0, 0), V2(1920 * One, 540 * One)}     \* pointer positions
WindowSizes == {[w |-> 1920, h |-> 1080], [w |-> 3840, h |-> 2160]}
StoredItems == {NULL, "1", "2", "3"}
Backends == {RendererWebGL_new, Renderer2D_new}
Randoms == {Random(n, BULLET_SPEED \div 2, dir, PARTICLE_MAX_LIFETIME \div 2, 15 * One, dir) :
              n \in 0..MaxBurst, dir \in {0, 180}}

\* SpecPresent: the messages that are queued
LongLine == [i \in 1..(LETTER_SLOTS_CAPACITY + ExtraLetters) |-> 65]
Texts == {PausedMessage, GameOverMessage(ENEMY_KILL_SCORE, 50), LongLine}

\* SpecCamera: the targets and the time steps, 0 < dt <= 1
Targets == {V2(1000 * One, 0), V2(0 - 600 * One, 800 * One), V2(40 * One, 0 - 20 * One)}
CameraSteps == {One \div 4, One \div 2, One}

\* SpecScreen: the sizes of the window, the camera positions, and the screen
\* points of a window of size s (corners, centre, and two points inside)
ScreenSizes == {[w |-> 1920, h |-> 1080], [w |-> 3840, h |-> 2160],
                [w |-> 801, h |-> 601], [w |-> 1000, h |-> 2160]}
CameraPositions == Targets \cup {V2(0, 0)}
ScreenPoints(s) ==
    {V2(0, 0), V2(s.w * One, 0), V2(0, s.h * One), V2(s.w * One, s.h * One),
     V2((s.w * One) \div 2, (s.h * One) \div 2), V2(100 * One, 200 * One),
     V2(333 * One, 577 * One)}

\* SpecTrail: the time steps (a dot of the player's trail fades in a third
\* of a second, the cooldown of a push is a sixtieth) and the positions
TrailSteps == {0, 10, 100, 200, 400}
TrailPositions == {V2(0, 0), V2(One, 0)}

\* SpecDeath: a tick long enough for a spawned enemy to reach the player
DeathAdvances == {4500}

\* SpecGray: the bytes of the colors given to grayScale (those of
\* PLAYER_COLOR and ENEMY_COLOR, 0 and 255), their alphas, and the values of t
ColorBytes == {0, 56, 65, 149, 244, 255}
Alphas == {0, One \div 2, One}
Fractions == {0, One \div 4, One \div 2, One}

\* SpecNormalize: the coordinates of the vectors given to V2.normalize
Coordinates ==
    {c * One : c \in {0 - 2000, 0 - 1500, 0 - 960, 0 - 69, 0 - 1, 0, 1, 69, 540, 1500, 2000}}

\* SpecMove: the keys of directionMap, and one tick length
MoveKeyCodes == {"KeyW", "KeyA", "KeyS", "KeyD"}
MoveAdvances == {500}

\* SpecHex: the characters of the strings given to Color.hex: '#', '0', 'F',
\* 'g' and 'x'
HexChars == {35, 48, 70, 103, 120}

\* SpecCombat: a long tick brings an enemy to the player, a short one shows
\* the particles of a burst
CombatAdvances == {100, 4500}
BurstCounts == 0..MaxCombatBurst
CombatRandoms ==
    {Random(n, BULLET_SPEED \div 2, dir, PARTICLE_MAX_LIFETIME \div 2, 15 * One, dir) :
        n \in BurstCounts, dir \in {0, 180}}

NoEvent ==
    [kind |-> "none", code |-> "", dt |-> 0, seen |-> <<>>, dead |-> FALSE, entry |-> NoEntry]

Event(kind, code) == [NoEvent EXCEPT !.kind = kind, !.code = code]

\* What has happened so far: the frames and the input events, the pushes
\* since the latest clear() (all of them, dropped or not), the messages queued
\* and the present() calls since then, the length of the log of GL calls when
\* the latest present() began, whether the camera was given a target, the
\* target, the time since, the camera position before the latest update, and
\* the latest step (for a frame: its time step, the Game that was rendered,
\* whether the player was dead when it began, and the Game that entered the
\* collision loop).
History == [frames |-> 0, events |-> 0, pushed |-> 0, cirPushed |-> 0, queued |-> <<>>,
            presents |-> 0, presentAt |-> 0, targeted |-> FALSE, target |-> V2(0, 0),
            elapsed |-> 0, before |-> V2(0, 0), last |-> NoEvent]

-----------------------------------------------------------------------------
(* The game: startup, frames and input events *)

\* let game = null (line 1355), and the renderer that was not built
NoGame == [null |-> TRUE]
NoRenderer == [backend |-> "none"]

\* a renderer that falls back on the 2D context when WebGL is not there
GetRenderer_fallsBack(legacy, gl, ext) ==
    [thrown |-> FALSE,
     renderer |-> IF ~legacy /\ gl /\ ext THEN RendererWebGL_new ELSE Renderer2D_new]

\* lines 1360-1377: the renderer for a page with or without the parameter
\* "legacy", in a browser in which getContext("webgl") and
\* getExtension('ANGLE_instanced_arrays') give something (gl, ext) or null
GetRenderer(legacy, gl, ext) ==
    IF ~legacy
    THEN IF ~gl THEN [thrown |-> TRUE, renderer |-> NoRenderer]
         ELSE IF ~ext THEN [thrown |-> TRUE, renderer |-> NoRenderer]
         ELSE [thrown |-> FALSE, renderer |-> RendererWebGL_new]
    ELSE [thrown |-> FALSE, renderer |-> Renderer2D_new]

\* the host after the startup function: the page and the browser, and, when
\* the function has run to its end, the frame it has requested and the
\* listeners it has added; when it has thrown, the error nobody has caught
HostAfter(legacy, gl, ext, coarse, size, started) ==
    [clock |-> 0, innerWidth |-> size.w, innerHeight |-> size.h,
     pendingFrames |-> IF started THEN 1 ELSE 0,
     listeners |-> started, uncaught |-> ~started,
     legacy |-> legacy, webgl |-> gl, instancedArrays |-> ext, coarse |-> coarse]

\* lines 1355-1448: the startup function
Main(legacy, gl, ext, storage, coarse, size, capacity) ==
    IF GetRenderer(legacy, gl, ext).thrown
    THEN /\ game = NoGame
         /\ renderer = NoRenderer
         /\ localStorage = storage
         /\ loop = [start |-> UNDEFINED, windowWasResized |-> FALSE]
         /\ host = HostAfter(legacy, gl, ext, coarse, size, FALSE)
         /\ cir = CircleInstancingRenderer_new(capacity)
         /\ hist = History
    ELSE \E g \in {Game_restart(GetRenderer(legacy, gl, ext).renderer, storage)} :
         \E c \in {IF coarse THEN CoarsePointer(g.game, storage)
                             ELSE [game |-> g.game, storage |-> storage]} :
            /\ game = c.game
            /\ renderer = g.renderer
            /\ localStorage = c.storage
            /\ loop = [start |-> UNDEFINED, windowWasResized |-> TRUE]
            /\ host = HostAfter(legacy, gl, ext, coarse, size, TRUE)
            /\ cir = CircleInstancingRenderer_new(capacity)
            /\ hist = History

\* the startup function where the renderer r can be built
Startup(r, storage, coarse, size, capacity) ==
    Main(r.backend = "2d", TRUE, TRUE, storage, coarse, size, capacity)

Init ==
    \E r \in Backends, storage \in StoredItems, coarse \in BOOLEAN :
        Startup(r, storage, coarse, [w |-> 1920, h |-> 1080], 1)

Frame(advances, randoms, limit) ==
    /\ hist.frames < limit
    /\ host.pendingFrames > 0
    /\ \E adv \in advances, rnd \in randoms :
         \E s \in {step(game, renderer, loop, host, localStorage, host.clock + adv, rnd)} :
            /\ game' = s.game
            /\ renderer' = s.renderer
            /\ loop' = s.loop
            /\ host' = s.host
            /\ localStorage' = s.storage
            /\ hist' = [hist EXCEPT !.frames = @ + 1,
                          !.last = [kind |-> "step", code |-> "", dt |-> s.dt,
                                    seen |-> s.seen,
                                    dead |-> game.player.health <= 0,
                                    entry |-> Entering(game, renderer, loop, host,
                                                       localStorage, host.clock + adv)]]
    /\ UNCHANGED cir

Input(kind, code, limit) ==
    /\ hist.events < limit
    /\ hist' = [hist EXCEPT !.events = @ + 1, !.last = Event(kind, code)]
    /\ UNCHANGED cir

KeyDown(keys, limit) ==
    \E code \in keys :
        \E k \in {Game_keyDown(game, renderer, code, localStorage)} :
           /\ Input("keydown", code, limit)
           /\ game' = k.game
           /\ renderer' = k.renderer
           /\ UNCHANGED <<localStorage, loop, host>>

KeyUp(keys, limit) ==
    \E code \in keys :
        /\ Input("keyup", code, limit)
        /\ game' = Game_keyUp(game, code)
        /\ UNCHANGED <<renderer, localStorage, loop, host>>

PointerMove(limit) ==
    \E offset \in Offsets :
        /\ Input("pointermove", "", limit)
        /\ game' = Game_mouseMove(game, offset)
        /\ UNCHANGED <<renderer, localStorage, loop, host>>

PointerDown(limit) ==
    \E offset \in Offsets :
        \E m \in {Game_mouseDown(game, renderer, offset, host.clock, localStorage)} :
           /\ Input("pointerdown", "", limit)
           /\ game' = m.game
           /\ localStorage' = m.storage
           /\ UNCHANGED <<renderer, loop, host>>

PointerUp(limit) ==
    /\ Input("pointerup", "", limit)
    /\ game' = Game_mouseUp(game)
    /\ UNCHANGED <<renderer, localStorage, loop, host>>

Blur(limit) ==
    /\ Input("blur", "", limit)
    /\ game' = OnBlur(game)
    /\ UNCHANGED <<renderer, localStorage, loop, host>>

Focus(limit) ==
    /\ Input("focus", "", limit)
    /\ loop' = OnFocus(loop, host.clock)
    /\ UNCHANGED <<game, renderer, localStorage, host>>

Resize(limit) ==
    \E size \in WindowSizes :
        /\ Input("resize", "", limit)
        /\ loop' = OnResize(loop)
        /\ host' = [host EXCEPT !.innerWidth = size.w, !.innerHeight = size.h]
        /\ UNCHANGED <<game, renderer, localStorage>>

Next ==
    \/ Frame(Advances, Randoms, MaxFrames)
    \/ KeyDown(Keys, MaxEvents)
    \/ KeyUp(Keys, MaxEvents)
    \/ PointerMove(MaxEvents)
    \/ PointerDown(MaxEvents)
    \/ PointerUp(MaxEvents)
    \/ Blur(MaxEvents)
    \/ Focus(MaxEvents)
    \/ Resize(MaxEvents)

Spec == Init /\ [][Next]_vars

-----------------------------------------------------------------------------
(* SpecBatch: the two instanced circle batches under pushes and clear()    *)

InitBatch ==
    \E capacity \in 1..MaxCapacity :
        Startup(RendererWebGL_new, NULL, FALSE, [w |-> 1920, h |-> 1080], capacity)

BatchFillCircle ==
    /\ hist.pushed < CIRCLE_BATCH_CAPACITY + MaxOverflow
    /\ renderer' = RendererWebGL_fillCircle(renderer, V2(0, 0), PLAYER_RADIUS, PLAYER_COLOR)
    /\ hist' = [hist EXCEPT !.pushed = @ + 1, !.last = Event("fillCircle", "")]
    /\ UNCHANGED <<game, localStorage, loop, host, cir>>

BatchClear ==
    /\ renderer' = RendererWebGL_clear(renderer)
    /\ hist' = [hist EXCEPT !.pushed = 0, !.last = Event("clear", "")]
    /\ UNCHANGED <<game, localStorage, loop, host, cir>>

BatchPushCircle ==
    /\ hist.cirPushed < cir.capacity + MaxOverflow
    /\ cir' = CircleInstancingRenderer_pushCircle(cir, V2(0, 0), PLAYER_RADIUS, PLAYER_COLOR)
    /\ hist' = [hist EXCEPT !.cirPushed = @ + 1, !.last = Event("pushCircle", "")]
    /\ UNCHANGED <<game, renderer, localStorage, loop, host>>

BatchClearCircles ==
    /\ cir' = CircleInstancingRenderer_clear(cir)
    /\ hist' = [hist EXCEPT !.cirPushed = 0, !.last = Event("clearCircles", "")]
    /\ UNCHANGED <<game, renderer, localStorage, loop, host>>

NextBatch ==
    \/ BatchFillCircle
    \/ BatchClear
    \/ BatchPushCircle
    \/ BatchClearCircles

SpecBatch == InitBatch /\ [][NextBatch]_vars

\* C1: after any pushes and clear() calls both batches hold
\* min(pushes since the latest clear, capacity) circles, so count <= capacity
\* and capacity + k pushes leave count = capacity; the buffers keep the
\* lengths they were allocated with.
BatchWithinCapacity ==
    /\ renderer.circlesCount = Min(hist.pushed, CIRCLE_BATCH_CAPACITY)
    /\ renderer.circlesCount <= CIRCLE_BATCH_CAPACITY
    /\ renderer.circleCenterBufferData = VEC2_COUNT * CIRCLE_BATCH_CAPACITY
    /\ renderer.circleRadiusBufferData = CIRCLE_BATCH_CAPACITY
    /\ renderer.circleColorBufferData = RGBA_COUNT * CIRCLE_BATCH_CAPACITY
    /\ cir.count = Min(hist.cirPushed, cir.capacity)
    /\ cir.count <= cir.capacity
    /\ cir.circleCenterBufferData = VEC2_COUNT * cir.capacity
    /\ cir.circleRadiusBufferData = cir.capacity
    /\ cir.circleColorBufferData = RGBA_COUNT * cir.capacity

\* both batches have been pushed into MaxOverflow times after they were full
BatchOverflowed ==
    /\ hist.pushed = CIRCLE_BATCH_CAPACITY + MaxOverflow
    /\ renderer.circlesCount = CIRCLE_BATCH_CAPACITY
    /\ hist.cirPushed = cir.capacity + MaxOverflow
    /\ cir.count = cir.capacity

-----------------------------------------------------------------------------
(* SpecPresent: RendererWebGL between two clear(): fillCircle, fillMessage *)
(* and present() in any order                                              *)

InitPresent == Startup(RendererWebGL_new, NULL, FALSE, [w |-> 1920, h |-> 1080], 1)

PresentFillCircle ==
    /\ hist.pushed < MaxCircles
    /\ renderer' = RendererWebGL_fillCircle(renderer, V2(0, 0), PLAYER_RADIUS, PLAYER_COLOR)
    /\ hist' = [hist EXCEPT !.pushed = @ + 1, !.last = Event("fillCircle", "")]
    /\ UNCHANGED <<game, localStorage, loop, host, cir>>

PresentFillMessage ==
    /\ Len(hist.queued) < MaxMessages
    /\ \E text \in Texts :
         /\ renderer' = RendererWebGL_fillMessage(renderer, text, MESSAGE_COLOR)
         /\ hist' = [hist EXCEPT !.queued = Append(@, text),
                                 !.last = Event("fillMessage", "")]
    /\ UNCHANGED <<game, localStorage, loop, host, cir>>

PresentPresent ==
    /\ hist.presents < MaxPresents
    /\ renderer' = RendererWebGL_present(renderer)
    /\ hist' = [hist EXCEPT !.presents = @ + 1, !.presentAt = Len(renderer.gl),
                            !.last = Event("present", "")]
    /\ UNCHANGED <<game, localStorage, loop, host, cir>>

PresentClear ==
    /\ renderer' = RendererWebGL_clear(renderer)
    /\ hist' = [hist EXCEPT !.pushed = 0, !.queued = <<>>, !.presents = 0,
                            !.presentAt = 0, !.last = Event("clear", "")]
    /\ UNCHANGED <<game, localStorage, loop, host, cir>>

NextPresent ==
    \/ PresentFillCircle
    \/ PresentFillMessage
    \/ PresentPresent
    \/ PresentClear

SpecPresent == InitPresent /\ [][NextPresent]_vars

\* the GL calls of the latest present()
LatestPresent == SubSeq(renderer.gl, hist.presentAt + 1, Len(renderer.gl))

DrawCalls(calls) ==
    SelectSeq(calls, LAMBDA c : c.call \in {"drawArrays", "drawArraysInstancedANGLE"})

DrawsOf(calls, program) == SelectSeq(calls, LAMBDA c : c.target = program)

\* the lines of the texts, text after text
RECURSIVE LinesOf(_)
LinesOf(texts) == IF texts = <<>> THEN <<>> ELSE Split(Head(texts)) \o LinesOf(Tail(texts))

\* C2: no glyph draw call of present() is given more than
\* LETTER_SLOTS_CAPACITY instances, however long the line.
GlyphDrawsWithinCapacity ==
    \A i \in DOMAIN renderer.gl :
        renderer.gl[i].target = "bitmapFontProgram"
            => renderer.gl[i].count <= LETTER_SLOTS_CAPACITY

\* C3: every present() issues exactly one circle draw call, with as many
\* instances as fillCircle accepted since the latest clear(), and glyph draws
\* only for the messages queued since then; clear() empties the circle count
\* and the message queue.
CirclesDrawnOncePerPresent ==
    /\ Len(DrawsOf(renderer.gl, "circlesProgram")) = hist.presents
    /\ hist.last.kind = "present" =>
         /\ Len(DrawsOf(LatestPresent, "circlesProgram")) = 1
         /\ DrawsOf(LatestPresent, "circlesProgram")[1].count
              = Min(hist.pushed, CIRCLE_BATCH_CAPACITY)
         /\ Len(DrawsOf(LatestPresent, "bitmapFontProgram")) = Len(LinesOf(hist.queued))
    /\ hist.last.kind = "clear" =>
         /\ renderer.circlesCount = 0
         /\ renderer.messages = <<>>
    /\ renderer.circlesCount = Min(hist.pushed, CIRCLE_BATCH_CAPACITY)
    /\ Len(renderer.messages) = Len(hist.queued)

\* a present() of MaxCircles circles and a message, after which a second
\* present() of the same frame has drawn them again
CirclesPresented ==
    /\ hist.last.kind = "present"
    /\ hist.presents = MaxPresents
    /\ hist.pushed = MaxCircles
    /\ Len(hist.queued) > 0
    /\ DrawsOf(LatestPresent, "circlesProgram")[1].count = MaxCircles

\* C4: present() uploads the three circle buffers, then draws the
\* background, then the circles, then the glyphs: one draw call per line, the
\* lines of the first message first.
PresentPassOrder ==
    hist.last.kind = "present" =>
        /\ Len(LatestPresent) >= 3
        /\ [i \in 1..3 |-> LatestPresent[i]] =
              <<GLCall("bufferSubData", "circleCenterBuffer", 0),
                GLCall("bufferSubData", "circleRadiusBuffer", 0),
                GLCall("bufferSubData", "circleColorBuffer", 0)>>
        /\ Len(DrawCalls(LatestPresent)) = 2 + Len(LinesOf(hist.queued))
        /\ DrawCalls(LatestPresent)[1].target = "backgroundProgram"
        /\ DrawCalls(LatestPresent)[2].target = "circlesProgram"
        /\ \A k \in 1..Len(LinesOf(hist.queued)) :
              /\ DrawCalls(LatestPresent)[k + 2].target = "bitmapFontProgram"
              /\ Min(DrawCalls(LatestPresent)[k + 2].count, LETTER_SLOTS_CAPACITY)
                   = Min(Len(LinesOf(hist.queued)[k]), LETTER_SLOTS_CAPACITY)

\* a present() of two messages, the first of three lines
TwoMessagesPresented ==
    /\ hist.last.kind = "present"
    /\ hist.queued = <<GameOverMessage(ENEMY_KILL_SCORE, 50), PausedMessage>>
    /\ hist.pushed > 0
    /\ Len(DrawCalls(LatestPresent)) = 6

-----------------------------------------------------------------------------
(* SpecCamera: setTarget(T) once, then update(dt) repeatedly               *)

InitCamera ==
    \E r \in Backends : Startup(r, NULL, FALSE, [w |-> 1920, h |-> 1080], 1)

CameraSetTarget ==
    /\ ~hist.targeted
    /\ \E T \in Targets :
         /\ renderer' = setTarget(renderer, T)
         /\ hist' = [hist EXCEPT !.targeted = TRUE, !.target = T, !.elapsed = 0,
                                 !.last = Event("setTarget", "")]
    /\ UNCHANGED <<game, localStorage, loop, host, cir>>

CameraUpdate ==
    /\ hist.targeted
    /\ hist.frames < MaxUpdates
    /\ \E dt \in CameraSteps :
         /\ renderer' = update(renderer, dt)
         /\ hist' = [hist EXCEPT !.frames = @ + 1, !.elapsed = @ + dt,
                                 !.before = renderer.cameraPos,
                                 !.last = Event("update", "")]
    /\ UNCHANGED <<game, localStorage, loop, host, cir>>

NextCamera ==
    \/ CameraSetTarget
    \/ CameraUpdate

SpecCamera == InitCamera /\ [][NextCamera]_vars

\* x lies between a and b
Between(a, x, b) == (a <= x /\ x <= b) \/ (b <= x /\ x <= a)

\* the camera, which started at start, is closer to T than before the latest
\* update and is not on the far side of T
Approaches(start, before, pos, T) ==
    /\ V2Dist(pos, T) < V2Dist(before, T)
    /\ Between(start.x, pos.x, T.x)
    /\ Between(start.y, pos.y, T.y)

\* C7, as the specification states it: every update(dt) with 0 < dt <= 1
\* after one setTarget(T) brings the camera closer to T and never past it.
CameraApproachesTarget ==
    hist.last.kind = "update" =>
        Approaches(RendererWebGL_new.cameraPos, hist.before, renderer.cameraPos, hist.target)

\* C7, amended: the updates bring the camera closer to T and never past it
\* as long as the time steps since setTarget(T) add up to at most 1; it is
\* at T when they add up to 1.
CameraApproachesWithinUnitTime ==
    (hist.last.kind = "update" /\ hist.elapsed <= One) =>
        /\ Approaches(RendererWebGL_new.cameraPos, hist.before, renderer.cameraPos,
                      hist.target)
        /\ hist.elapsed = One => renderer.cameraPos = hist.target

\* MaxUpdates updates that add up to 1 have brought the camera to T
CameraArrived ==
    /\ hist.last.kind = "update"
    /\ hist.frames = MaxUpdates
    /\ hist.elapsed = One
    /\ renderer.cameraPos = hist.target
    /\ hist.before # hist.target

-----------------------------------------------------------------------------
(* Properties of the frame loop (Spec) *)

\* C5: when a frame has ended, the timestamp and the viewport are those of
\* the frame, what has been drawn is the drawing of the Game as update() left
\* it (cleared first, one message), the flag of the resize is consumed and one
\* frame is pending: the next one.
FrameInOrder ==
    /\ host.pendingFrames = 1
    /\ hist.last.kind = "step" =>
         /\ renderer.backend = "webgl" => renderer.timestamp = host.clock
         /\ renderer.canvas = [width |-> host.innerWidth, height |-> host.innerHeight]
         /\ renderer.unitsPerPixel
              = FDiv(One, ViewportScale(host.innerWidth, host.innerHeight))
         /\ ~loop.windowWasResized
         /\ loop.start = host.clock
         /\ renderer.gl = Game_renderPasses(game, renderer).gl
         /\ renderer.gl[1].call \in {"clear", "clearRect"}
         /\ renderer.backend = "webgl" => Len(renderer.messages) = 1
         /\ renderer.backend = "2d" =>
              /\ Len(DrawsOf(renderer.gl, "context2d")) = Len(renderer.gl)
              /\ renderer.gl[Len(renderer.gl)].call = "fillText"

\* a frame after a resize in which the player has moved and shot
FrameAfterResize ==
    /\ hist.last.kind = "step"
    /\ hist.last.dt > 0
    /\ renderer.canvas.width = 3840
    /\ Len(game.bullets) > 0
    /\ Len(game.player.trail.trail) > 1

\* C6: render() leaves the Game fields and the camera as update() left them.
RenderReadsOnly ==
    hist.last.kind = "step" =>
        /\ game = hist.last.seen.game
        /\ renderer.cameraPos = hist.last.seen.cameraPos
        /\ renderer.cameraVel = hist.last.seen.cameraVel

\* a frame that has drawn the player, a trail, a bullet and an enemy
EntitiesRendered ==
    /\ hist.last.kind = "step"
    /\ Len(game.player.trail.trail) > 0
    /\ Len(game.bullets) > 0
    /\ Len(game.enemies) > 0
    /\ renderer.backend = "2d"
    /\ Len(renderer.gl) > 5

\* a frame of a Game that is not paused
UnpausedTick == hist'.frames = hist.frames + 1 /\ ~game.paused

\* the camera for a player at playerPos after a tick of dt
Followed(cameraPos, playerPos, dt) ==
    V2Add(cameraPos, V2Scale(V2Sub(playerPos, cameraPos), dt))

\* C8: an unpaused tick moves the camera by dtEff times its distance from
\* the position the player had when the tick began; if the player stays and
\* dtEff <= 1, the camera ends between where it was and the player.
CameraFollowsPlayer ==
    [][UnpausedTick =>
         /\ renderer'.cameraPos = Followed(renderer.cameraPos, game.player.pos,
                                           EffectiveDt(game, hist'.last.dt))
         /\ renderer'.cameraVel = V2Sub(game.player.pos, renderer.cameraPos)
         /\ (game'.player.pos = game.player.pos /\ EffectiveDt(game, hist'.last.dt) <= One) =>
              /\ Between(renderer.cameraPos.x, renderer'.cameraPos.x, game.player.pos.x)
              /\ Between(renderer.cameraPos.y, renderer'.cameraPos.y, game.player.pos.y)
      ]_vars

\* the player has moved and stopped, and the camera has moved part of the
\* way to the player in the latest tick
CameraOnTheWay ==
    /\ hist.last.kind = "step"
    /\ hist.last.dt > 0
    /\ game.pressedKeys = {}
    /\ ~game.paused
    /\ renderer.cameraPos # V2(0, 0)
    /\ renderer.cameraPos # game.player.pos
    /\ renderer.cameraVel = game.player.pos

-----------------------------------------------------------------------------
(* SpecDeath: a game past the tutorial, with frames long enough for the    *)
(* enemies to reach the player                                             *)

InitDeath ==
    \E r \in Backends : Startup(r, "2", FALSE, [w |-> 1920, h |-> 1080], 1)

NextDeath ==
    \/ Frame(DeathAdvances, Randoms, MaxDeathFrames)
    \/ KeyDown({"Space"}, MaxDeathEvents)
    \/ PointerDown(MaxDeathEvents)
    \/ PointerUp(MaxDeathEvents)
    \/ Blur(MaxDeathEvents)

SpecDeath == InitDeath /\ [][NextDeath]_vars

\* a frame of a Game that is not paused and whose player is dead
DeadTick == hist'.frames = hist.frames + 1 /\ ~game.paused /\ game.player.health <= 0

\* what a tick of dt does to everything that advances with time
TickAdvances(dt) ==
    /\ renderer'.cameraPos = Followed(renderer.cameraPos, game.player.pos, dt)
    /\ game'.player.pos = V2Add(game.player.pos, V2Scale(MoveVelocity(game), dt))
    /\ game'.player.trail.cooldown = game.player.trail.cooldown - dt
    /\ game'.tutorial = Tutorial_update(game.tutorial, dt)
    /\ game'.enemySpawnCooldown =
          IF game.enemySpawnCooldown - dt <= 0 THEN game.enemySpawnRate
                                               ELSE game.enemySpawnCooldown - dt
    /\ \A i \in DOMAIN game'.bullets :
          \/ \E j \in DOMAIN game.bullets : game'.bullets[i] = Bullet_update(game.bullets[j], dt)
          \/ game'.bullets[i].lifetime = BULLET_LIFETIME - dt
    /\ \A i \in DOMAIN game'.particles :
          \/ \E j \in DOMAIN game.particles :
                game'.particles[i] = Particle_update(game.particles[j], dt)
          \/ \E rnd \in Randoms : game'.particles[i].lifetime = rnd.lifetime - dt
    /\ \A i \in DOMAIN game'.enemies :
          \/ \E j \in DOMAIN game.enemies :
                game'.enemies[i] = Enemy_update(game.enemies[j], dt, game'.player.pos)
          \/ game'.enemies[i].radius = 0

\* C9: a tick of a dead player advances everything by dt / 50, and the
\* player comes back to life by nothing but the restart that Space asks for.
DeathSlowMotion ==
    [][/\ DeadTick => TickAdvances(hist'.last.dt \div SLOW_MOTION)
       /\ (game.player.health <= 0 /\ game'.player.health > 0) =>
             (hist'.last.kind = "keydown" /\ hist'.last.code = "Space")
      ]_vars

\* a slow tick has moved the enemies that surround the dead player
SlowTickTaken ==
    /\ hist.last.kind = "step"
    /\ hist.last.dead
    /\ hist.last.dt > 0
    /\ ~game.paused
    /\ game.player.health <= 0
    /\ Len(game.enemies) > 1

\* C10: while the player is dead the trail of the player and the trail of
\* every enemy of game.enemies are disabled.
TrailsDisabledWhileDead ==
    game.player.health <= 0 =>
        /\ game.player.trail.disabled
        /\ \A i \in DOMAIN game.enemies : game.enemies[i].trail.disabled

\* the least integer that is not below 100 * accuracy / max(shootCount, 1)
CeilPercent(accuracy, shootCount) ==
    CHOOSE p \in 0..(100 * accuracy) :
        /\ p * Max(shootCount, 1) >= 100 * accuracy
        /\ (p - 1) * Max(shootCount, 1) < 100 * accuracy

\* the fillText calls of the 2D context since the latest clear()
TextCalls(calls) == SelectSeq(calls, LAMBDA c : c.call = "fillText")

\* C11: a frame rendered for a dead player queues one message, the game-over
\* message with the score and the accuracy percentage rounded up (three
\* lines of text on the 2D context), and neither the PAUSED message nor the
\* tutorial popup.
GameOverMessageAlone ==
    (hist.last.kind = "step" /\ game.player.health <= 0) =>
        /\ renderer.backend = "webgl" =>
              renderer.messages =
                 << <<GameOverMessage(game.score,
                                      CeilPercent(game.player.accuracy, game.player.shootCount)),
                      MESSAGE_COLOR>> >>
        /\ renderer.backend = "2d" =>
              TextCalls(renderer.gl) =
                 [i \in 1..3 |->
                    GLCall("fillText", "context2d",
                           Len(Split(GameOverMessage(game.score,
                                        CeilPercent(game.player.accuracy,
                                                    game.player.shootCount)))[i]))]

\* a dead player who has scored with some of the bullets shot, so that the
\* percentage is not a whole number before it is rounded
GameOverRendered ==
    /\ hist.last.kind = "step"
    /\ game.player.health <= 0
    /\ game.score > 0
    /\ game.player.shootCount > 0
    /\ (100 * game.player.accuracy) % game.player.shootCount # 0
    /\ Len(renderer.messages) + Len(TextCalls(renderer.gl)) > 0

-----------------------------------------------------------------------------
(* SpecHex: Color.hex on the strings of at most MaxHexLength characters of *)
(* HexChars; hist.last.code is the string and hist.last.seen what Color.hex *)
(* has done with it                                                        *)

InitHex ==
    /\ Startup(RendererWebGL_new, NULL, FALSE, [w |-> 1920, h |-> 1080], 1)

HexCall ==
    /\ hist.last.kind = "none" \/ Len(hist.last.code) < MaxHexLength
    /\ \E c \in HexChars :
         \E hexcolor \in {IF hist.last.kind = "none" THEN <<c>> ELSE Append(hist.last.code, c)} :
            hist' = [hist EXCEPT !.last = [NoEvent EXCEPT !.kind = "Color.hex",
                                                           !.code = hexcolor,
                                                           !.seen = Color_hex(hexcolor)]]
    /\ UNCHANGED <<game, renderer, localStorage, loop, host, cir>>

SpecHex == InitHex /\ [][HexCall]_vars

\* '#' followed by six hexadecimal digits and nothing else
WellFormedHex(hexcolor) ==
    /\ Len(hexcolor) = 7
    /\ hexcolor[1] = 35
    /\ \A i \in 2..7 : IsHexDigit(hexcolor[i])

\* C16: Color.hex throws for every string that is not '#' followed by six
\* hexadecimal digits.
HexRejectsMalformed ==
    (hist.last.kind = "Color.hex" /\ ~WellFormedHex(hist.last.code)) => hist.last.seen.thrown

-----------------------------------------------------------------------------
(* SpecNormalize: V2.normalize on the vectors of Coordinates \X Coordinates; *)
(* hist.last.code is the vector and hist.last.seen the vector returned      *)

NormalizeCall ==
    /\ hist.last.kind = "none"
    /\ \E x \in Coordinates, y \in Coordinates :
          hist' = [hist EXCEPT !.last = [NoEvent EXCEPT !.kind = "V2.normalize",
                                                         !.code = V2(x, y),
                                                         !.seen = V2Normalize(V2(x, y))]]
    /\ UNCHANGED <<game, renderer, localStorage, loop, host, cir>>

SpecNormalize == InitHex /\ [][NormalizeCall]_vars

\* n has length 1, to the three decimal places of the numbers
UnitLength(n) ==
    /\ Abs(n.x) <= One + 2
    /\ Abs(n.y) <= One + 2
    /\ n.x * n.x + n.y * n.y >= (One - 2) * (One - 2)
    /\ n.x * n.x + n.y * n.y <= (One + 2) * (One + 2)

\* n points where v points (v in whole units): no component has the sign
\* opposite to v's (one below 0.001 is 0), n is not across v, and n is
\* parallel to v up to the rounding of n's components
SameDirection(n, v) ==
    /\ (v.x > 0 => n.x >= 0) /\ (v.x < 0 => n.x <= 0) /\ (v.x = 0 => n.x = 0)
    /\ (v.y > 0 => n.y >= 0) /\ (v.y < 0 => n.y <= 0) /\ (v.y = 0 => n.y = 0)
    /\ n.x * (v.x \div One) + n.y * (v.y \div One) > 0
    /\ Abs(n.x * (v.y \div One) - n.y * (v.x \div One))
          <= 2 * (Abs(v.x \div One) + Abs(v.y \div One))

\* C17: normalize returns the zero vector for the zero vector, and for
\* every other vector a vector of length 1 that points in the same direction.
NormalizeTotal ==
    hist.last.kind = "V2.normalize" =>
        /\ hist.last.code = V2(0, 0) => hist.last.seen = V2(0, 0)
        /\ hist.last.code # V2(0, 0) =>
              /\ UnitLength(hist.last.seen)
              /\ SameDirection(hist.last.seen, hist.last.code)

\* the zero vector has been normalized
ZeroNormalized ==
    /\ hist.last.kind = "V2.normalize"
    /\ hist.last.code = V2(0, 0)
    /\ hist.last.seen = V2(0, 0)

-----------------------------------------------------------------------------
(* SpecGray: Color.grayScale on the colors of ColorBytes and Alphas;       *)
(* hist.last.code is the color and t, hist.last.seen the color returned    *)

GrayScaleCall ==
    /\ hist.last.kind = "none"
    /\ \E r \in ColorBytes, g \in ColorBytes, b \in ColorBytes, a \in Alphas, t \in Fractions :
          hist' = [hist EXCEPT !.last =
                     [NoEvent EXCEPT !.kind = "Color.grayScale",
                                     !.code = [color |-> withAlpha(ColorOfBytes(r, g, b), a),
                                               t |-> t],
                                     !.seen = grayScale(withAlpha(ColorOfBytes(r, g, b), a), t)]]
    /\ UNCHANGED <<game, renderer, localStorage, loop, host, cir>>

SpecGray == InitHex /\ [][GrayScaleCall]_vars

\* x is the mean of c's r, g and b, to the three decimal places of the numbers
MeanOf(c, x) == 3 * x <= c.r + c.g + c.b /\ c.r + c.g + c.b < 3 * x + 3

-----------------------------------------------------------------------------
(* SpecScreen: screenToWorld of both renderers, each with its camera at    *)
(* the same position and after the frame loop has given it the size of the *)
(* same window; hist.last.code is the point, the size and the camera,      *)
(* hist.last.seen the two points returned                                  *)

\* the renderer r0 with its camera at camera, after lines 1397-1403 of the
\* first frame in a window of the size
OnScreen(r0, size, camera) ==
    Prepared([r0 EXCEPT !.cameraPos = camera],
             [start |-> UNDEFINED, windowWasResized |-> TRUE],
             [host EXCEPT !.innerWidth = size.w, !.innerHeight = size.h], 0)

ScreenToWorldCall ==
    /\ hist.last.kind = "none"
    /\ \E size \in ScreenSizes, camera \in CameraPositions :
       \E point \in ScreenPoints(size) :
          hist' = [hist EXCEPT !.last =
                     [NoEvent EXCEPT
                        !.kind = "screenToWorld",
                        !.code = [point |-> point, size |-> size, camera |-> camera],
                        !.seen = [webgl |-> RendererWebGL_screenToWorld(
                                               OnScreen(RendererWebGL_new, size, camera), point),
                                  canvas2d |-> Renderer2D_screenToWorld(
                                               OnScreen(Renderer2D_new, size, camera), point)]]]
    /\ UNCHANGED <<game, renderer, localStorage, loop, host, cir>>

SpecScreen == InitHex /\ [][ScreenToWorldCall]_vars

\* (point - viewportSize/2) * unitsPerPixel + cameraPos, with
\* unitsPerPixel = 1 / min(width/3840, height/2160)
WorldPoint(point, size, camera) ==
    V2Add(V2Scale(V2Sub(point, V2((size.w * One) \div 2, (size.h * One) \div 2)),
                  FDiv(One, Min((size.w * One) \div 3840, (size.h * One) \div 2160))),
          camera)

\* C24: for one window size and one camera position the two renderers map
\* every screen point to the same world point, which is
\* (point - viewportSize/2) * unitsPerPixel + cameraPos; the centre of the
\* viewport is mapped to the camera position.
ScreenToWorldParity ==
    hist.last.kind = "screenToWorld" =>
        /\ hist.last.seen.webgl = hist.last.seen.canvas2d
        /\ hist.last.seen.canvas2d
             = WorldPoint(hist.last.code.point, hist.last.code.size, hist.last.code.camera)
        /\ hist.last.code.point = V2((hist.last.code.size.w * One) \div 2,
                                     (hist.last.code.size.h * One) \div 2)
             => hist.last.seen.webgl = hist.last.code.camera

\* a point off the centre of a small window, seen by a camera off the origin
ScreenPointMapped ==
    /\ hist.last.kind = "screenToWorld"
    /\ hist.last.code.size = [w |-> 801, h |-> 601]
    /\ hist.last.code.point = V2(100 * One, 200 * One)
    /\ hist.last.code.camera = V2(1000 * One, 0)
    /\ hist.last.seen.webgl.x < 0
    /\ hist.last.seen.canvas2d.y < 0

-----------------------------------------------------------------------------
(* SpecTrail: push, update and the disabling of the player's Trail in any  *)
(* order; hist.last.seen is the Trail before the call and hist.last.dt the *)
(* time step of an update                                                  *)

TrailPush ==
    /\ hist.events < MaxTrailPushes
    /\ \E pos \in TrailPositions :
         /\ game' = [game EXCEPT !.player.trail = Trail_push(@, pos)]
         /\ hist' = [hist EXCEPT !.events = @ + 1,
                                 !.last = [NoEvent EXCEPT !.kind = "Trail.push",
                                                          !.code = pos,
                                                          !.seen = game.player.trail]]
    /\ UNCHANGED <<renderer, localStorage, loop, host, cir>>

TrailUpdate ==
    /\ hist.frames < MaxTrailUpdates
    /\ \E dt \in TrailSteps :
         /\ game' = [game EXCEPT !.player.trail = Trail_update(@, dt)]
         /\ hist' = [hist EXCEPT !.frames = @ + 1,
                                 !.last = [NoEvent EXCEPT !.kind = "Trail.update",
                                                          !.dt = dt,
                                                          !.seen = game.player.trail]]
    /\ UNCHANGED <<renderer, localStorage, loop, host, cir>>

\* this.player.trail.disabled = true (line 1236)
TrailDisable ==
    /\ ~game.player.trail.disabled
    /\ game' = [game EXCEPT !.player.trail.disabled = TRUE]
    /\ hist' = [hist EXCEPT !.last = [NoEvent EXCEPT !.kind = "Trail.disabled",
                                                     !.seen = game.player.trail]]
    /\ UNCHANGED <<renderer, localStorage, loop, host, cir>>

NextTrail ==
    \/ TrailPush
    \/ TrailUpdate
    \/ TrailDisable

SpecTrail == InitHex /\ [][NextTrail]_vars

\* the dots of the Trail before the latest call that dt leaves visible
Unfaded(before, dt) ==
    SelectSeq(before.trail, LAMBDA dot : dot.a - FMul(before.rate, dt) > 0)

\* C29: the dots are in the order of their creation, the older the fainter;
\* after update(dt) the Trail holds the dots that dt has left an alpha above
\* 0, all of them and no other, each dt * rate fainter; push(pos) appends a
\* dot of alpha 1 at pos and starts the cooldown when the Trail is not
\* disabled and its cooldown is at most 0, and does nothing otherwise.
TrailAgesOut ==
    /\ \A k \in DOMAIN game.player.trail.trail :
          /\ k > 1 => game.player.trail.trail[k - 1].a <= game.player.trail.trail[k].a
          /\ game.player.trail.trail[k].a <= One
    /\ hist.last.kind = "Trail.update" =>
          /\ \A k \in DOMAIN game.player.trail.trail : game.player.trail.trail[k].a > 0
          /\ Len(game.player.trail.trail) = Len(Unfaded(hist.last.seen, hist.last.dt))
          /\ \A k \in DOMAIN game.player.trail.trail :
                /\ game.player.trail.trail[k].pos = Unfaded(hist.last.seen, hist.last.dt)[k].pos
                /\ game.player.trail.trail[k].a
                     = Unfaded(hist.last.seen, hist.last.dt)[k].a
                       - FMul(hist.last.seen.rate, hist.last.dt)
          /\ game.player.trail.cooldown = hist.last.seen.cooldown - hist.last.dt
    /\ hist.last.kind = "Trail.push" =>
          IF ~hist.last.seen.disabled /\ hist.last.seen.cooldown <= 0
          THEN /\ game.player.trail.trail
                    = Append(hist.last.seen.trail, [pos |-> hist.last.code, a |-> One])
               /\ game.player.trail.cooldown = TRAIL_COOLDOWN
          ELSE game.player.trail = hist.last.seen

\* an update has removed two faded dots and kept a younger one
TrailAgedOut ==
    /\ hist.last.kind = "Trail.update"
    /\ Len(hist.last.seen.trail) = 3
    /\ Len(game.player.trail.trail) = 1
    /\ game.player.trail.trail[1].a < One \div 2

-----------------------------------------------------------------------------
(* SpecMove: the keys of directionMap are pressed and released between the *)
(* frames                                                                  *)

NextMove ==
    \/ Frame(MoveAdvances, {Random(0, 0, 0, 0, 0, 0)}, MaxMoveFrames)
    \/ KeyDown(MoveKeyCodes, MaxMoveEvents)
    \/ KeyUp(MoveKeyCodes, MaxMoveEvents)

SpecMove == InitHex /\ [][NextMove]_vars

\* the keys that are down without the key of the opposite direction
Unopposed(keys) ==
    {k \in keys \cap MoveKeyCodes :
        \A o \in keys \cap MoveKeyCodes :
            V2Add(directionMap[k], directionMap[o]) # V2(0, 0)}

\* the way the player has gone in a step
Displacement == V2Len(V2Sub(game'.player.pos, game.player.pos))

\* the way of a tick at PLAYER_SPEED, and the rounding allowed (0.2 %)
FullWay(dt) == FMul(PLAYER_SPEED, dt)

WayTolerance(dt) == FMul(PLAYER_SPEED \div 500, dt)

-----------------------------------------------------------------------------
(* SpecStartup: the page is opened with or without "legacy", in a browser  *)
(* with or without WebGL and its instanced-arrays extension; the frames    *)
(* run and the listeners are called if the startup function has requested *)
(* the frame and added the listeners                                       *)

InitStartup ==
    \E legacy \in BOOLEAN, gl \in BOOLEAN, ext \in BOOLEAN, storage \in {NULL, "2"} :
        Main(legacy, gl, ext, storage, FALSE, [w |-> 1920, h |-> 1080], 1)

NextStartup ==
    \/ Frame(Advances, Randoms, MaxStartupFrames)
    \/ host.listeners /\ KeyDown(Keys, MaxStartupEvents)
    \/ host.listeners /\ PointerDown(MaxStartupEvents)
    \/ host.listeners /\ Blur(MaxStartupEvents)
    \/ host.listeners /\ Resize(MaxStartupEvents)

SpecStartup == InitStartup /\ [][NextStartup]_vars

\* WebGL is selected and the browser lacks it or its extension
WebGLUnavailable == ~host.legacy /\ (~host.webgl \/ ~host.instancedArrays)

\* C20: where WebGL is selected and unavailable, the startup has ended in an
\* error: there is no Game and no renderer, no frame is pending or has run,
\* and no listener has been called; everywhere else the backend is, and
\* stays, the one the page selects ("2d" with "legacy", "webgl" without).
RendererFailureIsFatal ==
    /\ WebGLUnavailable =>
          /\ host.uncaught
          /\ game = NoGame
          /\ renderer = NoRenderer
          /\ host.pendingFrames = 0
          /\ hist.frames = 0
          /\ hist.events = 0
    /\ ~WebGLUnavailable =>
          /\ ~host.uncaught
          /\ "player" \in DOMAIN game
          /\ renderer.backend = IF host.legacy THEN "2d" ELSE "webgl"

\* the browser has WebGL without the extension, and the startup has thrown
StartupThrown ==
    /\ ~host.legacy
    /\ host.webgl
    /\ ~host.instancedArrays
    /\ host.uncaught
    /\ renderer.backend = "none"

\* C25: a frame of a paused Game, whatever its dt, leaves the renderer's
\* grayness at 1 and changes no field of the Game (player, bullets, enemies,
\* particles, score, tutorial and popup, spawn cooldown and rate, keys), nor
\* the camera position and velocity, nor the stored item.
PausedTickIsNoOp ==
    [][(hist'.frames = hist.frames + 1 /\ game.paused) =>
          /\ renderer'.grayness = One
          /\ game' = game
          /\ renderer'.cameraPos = renderer.cameraPos
          /\ renderer'.cameraVel = renderer.cameraVel
          /\ localStorage' = localStorage]_vars

\* a frame has passed over a paused Game in which the player was walking
\* and the popup of the tutorial was fading
PausedTickTaken ==
    /\ hist.last.kind = "step"
    /\ hist.last.dt > 0
    /\ game.paused
    /\ "KeyD" \in game.pressedKeys
    /\ game.tutorial.popup.dalpha # 0
    /\ renderer.cameraPos # game.player.pos
    /\ renderer.grayness = One

\* C30: the first frame finds the resize flag set; a frame that finds it set
\* calls setViewport once, with the size the window has then, and a frame
\* that finds it cleared does not call it and keeps the viewport; every
\* frame leaves the flag cleared, a resize event sets it and no other event
\* touches it or the viewport; so after every frame unitsPerPixel is
\* 1 / min(width/3840, height/2160) of the size read by the latest frame
\* that called setViewport.
ViewportCoalesced ==
    /\ [](hist.frames = 0 /\ hist.events = 0 => loop.windowWasResized)
    /\ [](hist.frames > 0 =>
            renderer.unitsPerPixel
              = FDiv(One, Min((renderer.canvas.width * One) \div 3840,
                              (renderer.canvas.height * One) \div 2160)))
    /\ [][/\ hist'.frames = hist.frames + 1 =>
              /\ ~loop'.windowWasResized
              /\ loop.windowWasResized =>
                    /\ renderer'.viewports = 1
                    /\ renderer'.canvas = [width |-> host.innerWidth,
                                           height |-> host.innerHeight]
                    /\ renderer.backend = "webgl" =>
                          renderer'.resolution = V2(host.innerWidth * One,
                                                    host.innerHeight * One)
              /\ ~loop.windowWasResized =>
                    /\ renderer'.viewports = 0
                    /\ renderer'.canvas = renderer.canvas
                    /\ renderer'.resolution = renderer.resolution
                    /\ renderer'.unitsPerPixel = renderer.unitsPerPixel
          /\ hist'.events = hist.events + 1 =>
              /\ loop'.windowWasResized
                   = (loop.windowWasResized \/ hist'.last.kind = "resize")
              /\ renderer'.viewports = renderer.viewports
              /\ renderer'.canvas = renderer.canvas
              /\ renderer'.resolution = renderer.resolution
              /\ renderer'.unitsPerPixel = renderer.unitsPerPixel]_vars

\* a frame has called setViewport for a window that has grown, and the
\* latest frame, with no resize before it, has not called it
ViewportSetOnce ==
    /\ hist.last.kind = "step"
    /\ hist.frames = MaxFrames
    /\ hist.events = MaxEvents
    /\ renderer.viewports = 0
    /\ renderer.canvas.width = 3840
    /\ host.innerWidth = 3840
    /\ renderer.unitsPerPixel = One

-----------------------------------------------------------------------------
(* SpecReload: the page is opened on a stored item the program has not     *)
(* written in this run, the player moves, shoots, dies and restarts, and   *)
(* the page is loaded again on the item the run has left                   *)

ReloadItems == {NULL, "0", "2", "3"}
ReloadRandoms ==
    {Random(1, BULLET_SPEED \div 2, 0, PARTICLE_MAX_LIFETIME \div 2, 15 * One, 0)}

InitReload ==
    \E storage \in ReloadItems, coarse \in BOOLEAN :
        Startup(Renderer2D_new, storage, coarse, [w |-> 1920, h |-> 1080], 1)

\* the page is loaded again: the startup function runs in the same browser,
\* on the localStorage the page before has left
Reload(limit) ==
    \E g \in {Game_restart(GetRenderer(host.legacy, host.webgl, host.instancedArrays).renderer,
                           localStorage)} :
    \E c \in {IF host.coarse THEN CoarsePointer(g.game, localStorage)
                              ELSE [game |-> g.game, storage |-> localStorage]} :
       /\ Input("reload", "", limit)
       /\ game' = c.game
       /\ renderer' = g.renderer
       /\ loop' = [start |-> UNDEFINED, windowWasResized |-> TRUE]
       /\ host' = HostAfter(host.legacy, host.webgl, host.instancedArrays, host.coarse,
                            [w |-> host.innerWidth, h |-> host.innerHeight], TRUE)
       /\ localStorage' = c.storage

\* The frames are half a second apart while a direction key is held, and
\* 4.5 s apart while the player stands still (the camera, which starts on
\* the player, then stays on it).
NextReload ==
    \/ /\ game.pressedKeys \cap DOMAIN directionMap = {}
       /\ Frame(DeathAdvances, ReloadRandoms, MaxReloadFrames)
    \/ /\ game.pressedKeys \cap DOMAIN directionMap # {}
       /\ Frame(MoveAdvances, ReloadRandoms, MaxReloadFrames)
    \/ KeyDown({"KeyD", "Space"}, MaxReloadEvents)
    \/ PointerDown(MaxReloadEvents)
    \/ Reload(MaxReloadEvents)

SpecReload == InitReload /\ [][NextReload]_vars

\* the state a stored item stands for
Persisted(item) == IF item \in {"0", "1", "2"} THEN ParseInt(item) ELSE 0

\* a step that constructs a Tutorial: a reload, or Space with a dead player
Reconstructs ==
    \/ hist'.last.kind = "reload"
    \/ hist'.last.kind = "keydown" /\ hist'.last.code = "Space" /\ game.player.health <= 0

\* C21: a step that changes the tutorial state without constructing a
\* Tutorial is a milestone (state 0 to 1, or 1 to 2) and stores the new state;
\* a step that constructs a Tutorial leaves it in the state the stored item
\* stands for (the item if it is 0, 1 or 2, otherwise 0), which is not
\* behind the state before; so the state is always the one the item stands for.
TutorialProgressPersists ==
    [][/\ (~Reconstructs /\ game'.tutorial.state # game.tutorial.state) =>
             /\ game'.tutorial.state = game.tutorial.state + 1
             /\ localStorage' = ToItem(game'.tutorial.state)
       /\ Reconstructs =>
             /\ game'.tutorial.state = Persisted(localStorage)
             /\ game'.tutorial.state >= game.tutorial.state
       /\ game'.tutorial.state = Persisted(localStorage')]_vars

\* the dead player has restarted the game
RestartedAfterDeath ==
    /\ hist.last.kind = "keydown"
    /\ hist.last.code = "Space"
    /\ hist.frames > 0
    /\ game.score = 0
    /\ game.enemies = <<>>
    /\ game.pressedKeys = {}
    /\ renderer.grayness = One

\* the page has been loaded again after the player has moved
ReloadedAfterMilestone ==
    /\ hist.last.kind = "reload"
    /\ localStorage = "1"
    /\ game.tutorial.state = TutorialState.LearningShooting
    /\ game.player.pos = V2(0, 0)

\* C22: there are enemies only where the tutorial is Finished, and a step
\* that ends with the tutorial in state 0 or 1 ends without enemies and with
\* the enemy spawn timer and rate where they were.
EnemiesAfterTutorial ==
    /\ [](game.enemies # <<>> => game.tutorial.state = TutorialState.Finished)
    /\ [][game'.tutorial.state # TutorialState.Finished =>
             /\ game'.enemies = <<>>
             /\ game'.enemySpawnCooldown = game.enemySpawnCooldown
             /\ game'.enemySpawnRate = game.enemySpawnRate]_vars

\* the player has moved and shot, and an enemy has come
EnemyAfterMilestones ==
    /\ game.enemies # <<>>
    /\ game.tutorial.state = TutorialState.Finished
    /\ game.player.shootCount > 0
    /\ game.player.pos.x > 0
    /\ game.enemySpawnRate < ENEMY_SPAWN_COOLDOWN

-----------------------------------------------------------------------------
(* The tutorial (Spec) *)

\* C14: the tutorial state is LearningShooting only once the popup of
\* "WASD to move" has faded out: the state value 1 is never seen together
\* with that text at an alpha above 0.
TutorialWaitsForFadeOut ==
    game.tutorial.state = TutorialState.LearningShooting =>
        ~(/\ game.tutorial.popup.text = MessageAt(TutorialState.LearningMovement)
          /\ game.tutorial.popup.alpha > 0)

-----------------------------------------------------------------------------
(* SpecFocus: the window loses the focus during the game of SpecDeath, and *)
(* Space resumes or restarts it                                            *)

NextFocus ==
    \/ Frame(DeathAdvances, Randoms, MaxDeathFrames)
    \/ Blur(MaxFocusEvents)
    \/ KeyDown({"Space"}, MaxFocusEvents)

SpecFocus == InitDeath /\ [][NextFocus]_vars

\* C15 as stated: a blur event sets the paused flag in any game state.
BlurAlwaysPauses == hist.last.kind = "blur" => game.paused

\* the latest step has drawn the PAUSED message and nothing else as text
PausedDrawn ==
    /\ renderer.backend = "webgl" => renderer.messages = << <<PausedMessage, MESSAGE_COLOR>> >>
    /\ renderer.backend = "2d" =>
          TextCalls(renderer.gl) = <<GLCall("fillText", "context2d", Len(PausedMessage))>>

\* C15: a blur event sets the paused flag when the player is alive and
\* changes nothing when the player is dead; a frame of a paused game leaves
\* the Game fields and the camera as they were, draws the game with the
\* PAUSED message and schedules the next frame; and the flag is cleared by
\* nothing but a keydown of Space.
BlurPausesUntilResumed ==
    [][/\ hist'.last.kind = "blur" =>
             /\ game.player.health > 0 => game'.paused
             /\ game.player.health <= 0 => game' = game
       /\ (hist'.last.kind = "step" /\ game.paused) =>
             /\ game' = game
             /\ renderer'.cameraPos = renderer.cameraPos
             /\ renderer'.cameraVel = renderer.cameraVel
             /\ renderer'.grayness = One
             /\ renderer'.gl = Game_renderPasses(game, renderer').gl
             /\ PausedDrawn'
             /\ host'.pendingFrames = 1
       /\ (game.paused /\ ~game'.paused) =>
             (hist'.last.kind = "keydown" /\ hist'.last.code = "Space")
      ]_vars

\* the window has lost the focus in the middle of a game, no key has been
\* pressed, and a frame of the paused game has been drawn
PausedFrameAfterBlur ==
    /\ hist.last.kind = "step"
    /\ hist.last.dt > 0
    /\ game.paused
    /\ game.pressedKeys = {}
    /\ Len(game.enemies) > 0
    /\ renderer.grayness = One
    /\ PausedDrawn

-----------------------------------------------------------------------------
(* SpecCombat: a game past the tutorial in which the player shoots at the  *)
(* enemies that reach it                                                   *)

InitCombat ==
    \E r \in Backends : Startup(r, "2", FALSE, [w |-> 1920, h |-> 1080], 1)

NextCombat ==
    \/ Frame(CombatAdvances, CombatRandoms, MaxCombatFrames)
    \/ KeyDown({"KeyD"}, MaxCombatEvents)
    \/ PointerDown(MaxCombatEvents)
    \/ PointerUp(MaxCombatEvents)

SpecCombat == InitCombat /\ [][NextCombat]_vars

\* the Game that entered the collision loop of the latest tick
Entered == hist.last.entry

\* a tick has run its collision loop
Collided == hist.last.kind = "step" /\ Entered.live

\* the enemies and bullets that were within BULLET_RADIUS + ENEMY_RADIUS
Hits ==
    {h \in (DOMAIN Entered.enemies) \X (DOMAIN Entered.bullets) :
        V2Dist(Entered.enemies[h[1]], Entered.bullets[h[2]].pos) <= BULLET_RADIUS + ENEMY_RADIUS}

Killed == {h[1] : h \in Hits}

Spent == {h[2] : h \in Hits}

\* the enemies that were within PLAYER_RADIUS + ENEMY_RADIUS of the player
Contacts ==
    {i \in DOMAIN Entered.enemies :
        V2Dist(Entered.enemies[i], Entered.playerPos) <= PLAYER_RADIUS + ENEMY_RADIUS}

\* the particles of the color of the enemies
EnemyColored(particles) == {k \in DOMAIN particles : particles[k].color = ENEMY_COLOR}

\* where an entity of velocity vel that is at pos after a tick of dt was
\* before it
MovedFrom(pos, before, vel, dt) == pos = V2Add(before, V2Scale(vel, dt))

\* the particles of the enemies' color that the latest tick has added and
\* not removed
NewParticles ==
    Cardinality(EnemyColored(game.particles))
    - Cardinality({q \in EnemyColored(Entered.particles) :
                      Entered.particles[q].lifetime - Entered.dt > 0})

\* the sizes a burst can have: the number of i >= 0 with i < N for an N of
\* PARTICLES_COUNT_RANGE
BurstSizes == PARTICLES_COUNT_RANGE[1]..PARTICLES_COUNT_RANGE[2]

BulletCheckFirst ==
    Collided =>
        /\ game.player.health
              >= Entered.health - ENEMY_DAMAGE * Cardinality(Contacts \ Killed)
        /\ (Contacts \cap Killed # {}) => game.score > Entered.score

\* the only enemy in contact with the player was in range of a bullet: the
\* score has grown and the health has not fallen
ShotInContact ==
    /\ Collided
    /\ Contacts # {}
    /\ Contacts \subseteq Killed
    /\ game.score > Entered.score
    /\ game.player.health = Entered.health

\* C23: between two steps (after a frame and after an input event) every
\* bullet and every particle has a lifetime above 0, and every enemy is not
\* ded and is closer to the player than ENEMY_DESPAWN_DISTANCE.
CulledAtFrameBoundary ==
    /\ \A k \in DOMAIN game.bullets : game.bullets[k].lifetime > 0
    /\ \A k \in DOMAIN game.particles : game.particles[k].lifetime > 0
    /\ \A k \in DOMAIN game.enemies :
          /\ ~game.enemies[k].ded
          /\ V2Dist(game.enemies[k].pos, game.player.pos) < ENEMY_DESPAWN_DISTANCE

\* the latest tick has removed a bullet and an enemy that met, and an enemy
\* the player has left behind
CulledThisTick ==
    /\ Collided
    /\ Killed # {}
    /\ Len(game.bullets) < Len(Entered.bullets)
    /\ \E i \in DOMAIN Entered.enemies :
          V2Dist(Entered.enemies[i], game.player.pos) > ENEMY_DESPAWN_DISTANCE + ENEMY_SPAWN_DISTANCE

\* the grayness the circles of the latest render were drawn with: the
\* uniform of the circle pass (WebGL), the grayness read by each arc (2D)
AppliedGrayness ==
    {renderer.gl[k].count : k \in {j \in DOMAIN renderer.gl :
        \/ renderer.gl[j].call = "arc"
        \/ renderer.gl[j].call = "uniform1f" /\ renderer.gl[j].target = "grayness"}}

\* C26 as stated: after a frame of a Game that is not paused, the grayness is
\* 1 - health / PLAYER_MAX_HEALTH for the health the player has at the render.
GraynessOfHealthAtRender ==
    (hist.last.kind = "step" /\ ~game.paused) =>
        renderer.grayness = One - (game.player.health * One) \div PLAYER_MAX_HEALTH

\* C26: a frame of a Game that is not paused draws its circles with the
\* grayness 1 - health / PLAYER_MAX_HEALTH of the health the player had when
\* update() began (the damage and the healing of the tick show in the next
\* frame), and this grayness lies between 0 and 1.
GraynessOfHealthAtUpdate ==
    [][(hist'.frames = hist.frames + 1 /\ ~game.paused) =>
          /\ renderer'.grayness = One - (game.player.health * One) \div PLAYER_MAX_HEALTH
          /\ 0 <= renderer'.grayness
          /\ renderer'.grayness <= One
          /\ \A k \in DOMAIN renderer'.gl :
                (\/ renderer'.gl[k].call = "arc"
                 \/ renderer'.gl[k].call = "uniform1f" /\ renderer'.gl[k].target = "grayness")
                => renderer'.gl[k].count = renderer'.grayness]_vars

\* the player was hit in the latest tick and drawn in the color of before
DamagedThisTick ==
    /\ Collided
    /\ game.player.health < Entered.health
    /\ game.player.health > 0
    /\ AppliedGrayness = {One - (Entered.health * One) \div PLAYER_MAX_HEALTH}

\* the enemies no tick has moved yet
Fresh(g) == {k \in DOMAIN g.enemies : g.enemies[k] = Enemy_new(g.enemies[k].pos)}

\* C27: with the tutorial finished, a tick that is not paused and whose
\* effective dt leaves the spawn cooldown above 0 takes dt off the cooldown,
\* spawns nothing and keeps the rate; a tick whose dt brings the cooldown to
\* 0 or below appends one fresh enemy, ENEMY_SPAWN_DISTANCE from the player,
\* sets the cooldown to the rate and divides the rate by ENEMY_SPAWN_GROWTH,
\* which leaves it smaller and positive.
SpawnRampUp ==
    [][(hist'.frames = hist.frames + 1 /\ hist'.last.entry.live
          /\ game'.tutorial.state = TutorialState.Finished) =>
          IF game.enemySpawnCooldown - hist'.last.entry.dt <= 0
          THEN /\ Fresh(game') = {Len(game'.enemies)}
               /\ V2Dist(game'.enemies[Len(game'.enemies)].pos, game'.player.pos)
                    = ENEMY_SPAWN_DISTANCE
               /\ game'.enemySpawnCooldown = game.enemySpawnRate
               /\ game'.enemySpawnRate = FDiv(game.enemySpawnRate, ENEMY_SPAWN_GROWTH)
               /\ game'.enemySpawnRate < game.enemySpawnRate
               /\ game'.enemySpawnRate > 0
          ELSE /\ Fresh(game') = {}
               /\ game'.enemySpawnCooldown = game.enemySpawnCooldown - hist'.last.entry.dt
               /\ game'.enemySpawnRate = game.enemySpawnRate]_vars

\* a tick of 4.5 s, more than four spawn periods, has spawned the third
\* enemy next to a player who has walked away from the origin
SpawnedThird ==
    /\ Collided
    /\ Entered.dt > 4 * ENEMY_SPAWN_COOLDOWN
    /\ game.player.pos # V2(0, 0)
    /\ Fresh(game) # {}
    /\ game.enemySpawnRate
         = FDiv(FDiv(FDiv(ENEMY_SPAWN_COOLDOWN, ENEMY_SPAWN_GROWTH), ENEMY_SPAWN_GROWTH),
                ENEMY_SPAWN_GROWTH)

\* the bullets that were in range of enemy i
BulletsOn(i) == {h[2] : h \in {p \in Hits : p[1] = i}}

\* the health h after k calls of heal(ENEMY_KILL_HEAL)
HealedTimes(h, k) == IF h <= 0 THEN h ELSE Min(h + k * ENEMY_KILL_HEAL, PLAYER_MAX_HEALTH)

-----------------------------------------------------------------------------
(* class CircleRenderer of webgl.js (the tech demo without instancing) and *)
(* SpecCircle: pushCircle and clear() on one of them                       *)

TRIANGLE_VERTICIES == 3
TRIANGLE_PAIR == 2
POSITION_TRIANGLE_SIZE == TRIANGLE_VERTICIES * VEC2_COUNT
COLOR_TRIANGLE_SIZE == TRIANGLE_VERTICIES * RGBA_COUNT
UV_TRIANGLE_SIZE == TRIANGLE_VERTICIES * VEC2_COUNT

\* new Float32Array(length): indexed from 0, filled with zeros
Float32Array_new(length) == [i \in 0..(length - 1) |-> 0]

\* array[index] = value: a store outside the array is ignored
Float32Array_set(array, index, value) ==
    IF index \in DOMAIN array THEN [array EXCEPT ![index] = value] ELSE array

\* webgl.js lines 175-235
CircleRenderer_new(capacity) ==
    [count |-> 0,
     capacity |-> capacity,
     positionBufferData |->
         Float32Array_new(TRIANGLE_PAIR * TRIANGLE_VERTICIES * VEC2_COUNT * capacity),
     colorBufferData |->
         Float32Array_new(TRIANGLE_PAIR * TRIANGLE_VERTICIES * RGBA_COUNT * capacity),
     uvBufferData |->
         Float32Array_new(TRIANGLE_PAIR * TRIANGLE_VERTICIES * VEC2_COUNT * capacity)]

\* webgl.js lines 241-271: one turn of the inner loop
CircleRenderer_pushVertex(this, triangle, vertex, center, radius, color) ==
    LET quad == triangle + vertex
        uv_x == quad % 2
        uv_y == (quad \div 2) % 2
        x == 2 * uv_x - 1
        y == 2 * uv_y - 1
        position_offset == this.count * POSITION_TRIANGLE_SIZE + vertex * VEC2_COUNT
        color_offset == this.count * COLOR_TRIANGLE_SIZE + vertex * RGBA_COUNT
        uv_offset == this.count * UV_TRIANGLE_SIZE + vertex * VEC2_COUNT
    IN [this EXCEPT
          !.positionBufferData =
              Float32Array_set(
                  Float32Array_set(@, position_offset, x * radius + center.x),
                  position_offset + 1, y * radius + center.y),
          !.colorBufferData =
              Float32Array_set(
                  Float32Array_set(
                      Float32Array_set(
                          Float32Array_set(@, color_offset, color.r),
                          color_offset + 1, color.g),
                      color_offset + 2, color.b),
                  color_offset + 3, color.a),
          !.uvBufferData =
              Float32Array_set(Float32Array_set(@, uv_offset, uv_x), uv_offset + 1, uv_y)]

\* webgl.js lines 239-275: one turn of the outer loop, which ends with
\* this.count += 1
CircleRenderer_pushTriangle(this, triangle, center, radius, color) ==
    [CircleRenderer_pushVertex(
         CircleRenderer_pushVertex(
             CircleRenderer_pushVertex(this, triangle, 0, center, radius, color),
             triangle, 1, center, radius, color),
         triangle, 2, center, radius, color)
     EXCEPT !.count = @ + 1]

\* webgl.js lines 237-277
CircleRenderer_pushCircle(this, center, radius, color) ==
    IF this.count < this.capacity
    THEN CircleRenderer_pushTriangle(
             CircleRenderer_pushTriangle(this, 0, center, radius, color),
             1, center, radius, color)
    ELSE this

\* webgl.js lines 290-292
CircleRenderer_clear(this) == [this EXCEPT !.count = 0]

\* webgl.js line 287: the vertices drawArrays is asked for
CircleRenderer_draw(this) == this.count * TRIANGLE_VERTICIES

\* the centres, radii and colours of the two circles of webgl.js lines 317-318
CirclePushes ==
    {[center |-> c, radius |-> r, color |-> k] :
        c \in {V2(0, 0), V2(50, 50)}, r \in {100, 50},
        k \in {Color(1, 0, 0, 1), Color(0, 0, 1, 1)}}

InitCircle ==
    \E capacity \in 1..MaxCapacity :
        /\ game = NoGame
        /\ renderer = NoRenderer
        /\ localStorage = NULL
        /\ loop = [start |-> UNDEFINED, windowWasResized |-> FALSE]
        /\ host = [HostAfter(FALSE, TRUE, TRUE, FALSE, [w |-> 1920, h |-> 1080], FALSE)
                   EXCEPT !.uncaught = FALSE]
        /\ cir = CircleRenderer_new(capacity)
        /\ hist = History

CirclePushCircle ==
    /\ hist.cirPushed < cir.capacity + MaxOverflow
    /\ \E c \in CirclePushes :
          cir' = CircleRenderer_pushCircle(cir, c.center, c.radius, c.color)
    /\ hist' = [hist EXCEPT !.cirPushed = @ + 1, !.last = Event("pushCircle", "")]
    /\ UNCHANGED <<game, renderer, localStorage, loop, host>>

CircleClear ==
    /\ cir' = CircleRenderer_clear(cir)
    /\ hist' = [hist EXCEPT !.cirPushed = 0, !.last = Event("clear", "")]
    /\ UNCHANGED <<game, renderer, localStorage, loop, host>>

NextCircle ==
    \/ CirclePushCircle
    \/ CircleClear

SpecCircle == InitCircle /\ [][NextCircle]_vars

\* C31: after n pushCircle calls following clear() a CircleRenderer of
\* webgl.js holds min(n, capacity) circles, so count <= capacity in every
\* state and the pushes beyond capacity are dropped.
CircleRendererWithinCapacity ==
    /\ cir.count = Min(hist.cirPushed, cir.capacity)
    /\ cir.count <= cir.capacity

\* what the class does: count is a number of triangles, two a circle, and
\* pushCircle compares it with the capacity in circles; the circles it has
\* accepted are min(n, ceil(capacity / 2)), and the buffers, which have room
\* for capacity circles, keep their lengths
CircleRendererCountsTriangles ==
    /\ cir.count = TRIANGLE_PAIR * Min(hist.cirPushed, (cir.capacity + 1) \div 2)
    /\ cir.count <= cir.capacity + 1
    /\ CircleRenderer_draw(cir) = 6 * Min(hist.cirPushed, (cir.capacity + 1) \div 2)
    /\ DOMAIN cir.positionBufferData = 0..(12 * cir.capacity - 1)
    /\ DOMAIN cir.colorBufferData = 0..(24 * cir.capacity - 1)
    /\ DOMAIN cir.uvBufferData = 0..(12 * cir.capacity - 1)

\* a CircleRenderer of capacity 1 after its first pushCircle
CircleCountedTwice ==
    /\ cir.capacity = 1
    /\ hist.cirPushed = 1
    /\ cir.count = 2

-----------------------------------------------------------------------------
(* SpecHealth: the game with the tutorial finished under short and long    *)
(* frames, until enemies have reached the player from both sides           *)

MaxHealthFrames == 10
MaxHealthEvents == 1
HealthAdvances == {4500, 9000}
HealthRandoms == {Random(1, BULLET_SPEED \div 2, 0, PARTICLE_MAX_LIFETIME \div 2, 15 * One, 0)}

InitHealth == Startup(Renderer2D_new, "2", FALSE, [w |-> 1920, h |-> 1080], 1)

NextHealth ==
    \/ Frame(HealthAdvances, HealthRandoms, MaxHealthFrames)
    \/ PointerDown(MaxHealthEvents)

SpecHealth == InitHealth /\ [][NextHealth]_vars


PlayerColored(particles) == {k \in DOMAIN particles : particles[k].color = PLAYER_COLOR}

\* the particles of the player's color that the latest tick has added and
\* not removed
NewPlayerParticles ==
    Cardinality(PlayerColored(game.particles))
    - Cardinality({q \in PlayerColored(Entered.particles) :
                      Entered.particles[q].lifetime - Entered.dt > 0})

\* the health h after one contact
DamagedOnce(h) == IF h - ENEMY_DAMAGE >= 0 THEN h - ENEMY_DAMAGE ELSE 0

\* the health and the number of contacts that have counted after the enemies
\* i, i + 1, ... of the latest collision loop, taken in their order: every
\* bullet in range heals a player who is alive, and a contact with an enemy
\* that no bullet has hit costs ENEMY_DAMAGE to a player who is alive
RECURSIVE HealthAfter(_, _, _)
HealthAfter(h, damaged, i) ==
    IF i > Len(Entered.enemies) THEN [health |-> h, damaged |-> damaged]
    ELSE LET healed == HealedTimes(h, Cardinality(BulletsOn(i)))
         IN IF healed > 0 /\ i \in Contacts \ Killed
            THEN HealthAfter(DamagedOnce(healed), damaged + 1, i + 1)
            ELSE HealthAfter(healed, damaged, i + 1)

\* C32: the health of the player is between 0 and PLAYER_MAX_HEALTH; a contact
\* lowers it by ENEMY_DAMAGE and not below 0, a kill raises it by
\* ENEMY_KILL_HEAL and not above PLAYER_MAX_HEALTH, and in one tick no enemy
\* damages the player after the health has reached 0.
HealthWithinBounds ==
    /\ game.player.health >= 0
    /\ game.player.health <= PLAYER_MAX_HEALTH
    /\ Collided =>
          /\ game.player.health = HealthAfter(Entered.health, 0, 1).health
          /\ \E n \in BurstSizes :
                NewPlayerParticles \in {0, n * HealthAfter(Entered.health, 0, 1).damaged}
          /\ game.player.health = 0 /\ Entered.health > 0 =>
                (HealthAfter(Entered.health, 0, 1).damaged - 1) * ENEMY_DAMAGE
                    < Entered.health + ENEMY_KILL_HEAL * Cardinality(Hits)

\* the player has died in a tick in which two enemies that no bullet had hit
\* were in contact: the second has done nothing
DiedBeforeSecondContact ==
    /\ Collided
    /\ Entered.health > 0
    /\ Entered.health <= ENEMY_DAMAGE
    /\ game.player.health = 0
    /\ Cardinality(Contacts \ Killed) >= 2
    /\ HealthAfter(Entered.health, 0, 1).damaged = 1

-----------------------------------------------------------------------------
(* The steps of the tutorial (SpecReload) *)

\* the step is an unpaused tick with a direction key held
MovingTick == hist'.last.kind = "step" /\ ~game.paused /\ MoveKeys(game) # {}

\* the step is a pointer-down on a game that is not paused and whose player
\* is alive
LiveShot == hist'.last.kind = "pointerdown" /\ ~game.paused /\ game.player.health > 0

\* C33: the tutorial state is 0, 1 or 2; it goes from 0 to 1 in an unpaused
\* tick with a direction key held (on a coarse pointer the startup function
\* has done it, so the state is never 0 there) and from 1 to 2 at a
\* pointer-down on a game that is not paused and whose player is alive, and
\* it changes in no other step: it never goes down and never skips a value.
TutorialStepsInOrder ==
    /\ [](/\ game.tutorial.state \in {TutorialState.LearningMovement,
                                      TutorialState.LearningShooting,
                                      TutorialState.Finished}
          /\ host.coarse => game.tutorial.state # TutorialState.LearningMovement)
    /\ [][/\ game'.tutorial.state # game.tutorial.state =>
                \/ /\ game.tutorial.state = TutorialState.LearningMovement
                   /\ game'.tutorial.state = TutorialState.LearningShooting
                   /\ MovingTick
                \/ /\ game.tutorial.state = TutorialState.LearningShooting
                   /\ game'.tutorial.state = TutorialState.Finished
                   /\ LiveShot
          /\ MovingTick /\ game.tutorial.state = TutorialState.LearningMovement =>
                game'.tutorial.state = TutorialState.LearningShooting
          /\ LiveShot /\ game.tutorial.state = TutorialState.LearningShooting =>
                game'.tutorial.state = TutorialState.Finished]_vars

\* the player has moved and then shot, and a further tick has run with the
\* direction key still held: the state is 2, as the stored item is
TutorialCompleted ==
    /\ ~host.coarse
    /\ game.tutorial.state = TutorialState.Finished
    /\ localStorage = "2"
    /\ hist.last.kind = "step"
    /\ MoveKeys(game) # {}
    /\ game.player.shootCount >= 0
    /\ hist.events >= 2

-----------------------------------------------------------------------------
(* Paused and dead (SpecDeath) *)

\* C34: a paused game has a living player: Space on a dead player restarts the
\* game and does not pause it, and the restarted game is not paused and has
\* full health; a blur leaves a game whose player is dead as it is; a tick of
\* a paused game leaves the health as it is.
PausedImpliesAlive ==
    /\ [](game.paused => game.player.health > 0)
    /\ [][/\ (hist'.last.kind = "keydown" /\ hist'.last.code = "Space"
                /\ game.player.health <= 0) =>
                /\ game' = Game_restart(renderer, localStorage).game
                /\ ~game'.paused
                /\ game'.player.health = PLAYER_MAX_HEALTH
          /\ (hist'.last.kind = "keydown" /\ hist'.last.code = "Space"
                /\ game.player.health > 0) =>
                /\ game'.paused = ~game.paused
                /\ game'.player.health = game.player.health
          /\ (hist'.last.kind = "blur" /\ game.player.health <= 0) => game' = game
          /\ (hist'.last.kind = "blur" /\ game.player.health > 0) => game'.paused
          /\ (hist'.last.kind = "step" /\ game.paused) =>
                game'.player.health = game.player.health]_vars

\* the window has lost the focus after the player has died: the game is not
\* paused
BlurredWhenDead ==
    /\ hist.last.kind = "blur"
    /\ game.player.health <= 0
    /\ ~game.paused
    /\ hist.frames > 0

-----------------------------------------------------------------------------
(* Shots of a dead player (SpecDeath) *)

\* the step restarts the game
Restarts ==
    hist'.last.kind = "keydown" /\ hist'.last.code = "Space" /\ game.player.health <= 0

\* every bullet of the next state is a bullet of this one, no younger than
\* it was, and the player has called shootAt no more often
NoBulletAdded ==
    /\ game'.player.shootCount = game.player.shootCount
    /\ \A k \in DOMAIN game'.bullets :
          \E j \in DOMAIN game.bullets :
             /\ game'.bullets[k].vel = game.bullets[j].vel
             /\ game'.bullets[k].lifetime <= game.bullets[j].lifetime

\* C35: from the death of the player to the restart no bullet is added,
\* neither by a pointer-down nor by the continuous fire of update().
DeadPlayerDoesNotShoot ==
    [][(game.player.health <= 0 /\ ~Restarts) => NoBulletAdded]_vars

\* what holds: a pointer-down on a dead player adds no bullet and does not set
\* shooting, and a tick of a dead player whose shooting is not set adds none
DeadPlayerDoesNotStartShooting ==
    [][(game.player.health <= 0 /\ ~Restarts) =>
          /\ (hist'.last.kind # "step" \/ ~game.player.shooting \/ game.paused) => NoBulletAdded
          /\ game'.player.shooting => game.player.shooting]_vars

\* the pointer was down when the player died, and the tick after has fired
ShotWhileDead ==
    /\ hist.last.kind = "step"
    /\ hist.last.dead
    /\ game.player.health <= 0
    /\ game.player.shooting
    /\ game.player.lastShoot = host.clock
    /\ game.bullets # <<>>

-----------------------------------------------------------------------------
(* SpecAccuracy: a player who finishes the tutorial with a shot, or has     *)
(* finished it before, runs after the bullets                               *)

MaxAccuracyFrames == 3
MaxAccuracyEvents == 4
AccuracyAdvances == {1400}
AccuracyItems == {"1", "2"}

InitAccuracy ==
    \E storage \in AccuracyItems :
        Startup(Renderer2D_new, storage, FALSE, [w |-> 1920, h |-> 1080], 1)

NextAccuracy ==
    \/ Frame(AccuracyAdvances, ReloadRandoms, MaxAccuracyFrames)
    \/ KeyDown({"KeyD"}, MaxAccuracyEvents)
    \/ PointerDown(MaxAccuracyEvents)
    \/ PointerUp(MaxAccuracyEvents)

SpecAccuracy == InitAccuracy /\ [][NextAccuracy]_vars

\* C36: the accuracy of the game-over message,
\* ceil(100 * accuracy / max(shootCount, 1)), is between 0 and 100 in every
\* state, whatever the stored tutorial state was when the player was made.
AccuracyIsPercentage ==
    /\ AccuracyPercent(game.player) >= 0
    /\ AccuracyPercent(game.player) <= 100

\* what holds: the bullets that have hit are at most one more than
\* shootCount, and no more than shootCount for a player made with the
\* tutorial finished (the stored item is not written afterwards); the
\* percentage is between 0 and 200
AccuracyWithinShots ==
    /\ game.player.accuracy >= 0
    /\ game.player.accuracy <= game.player.shootCount + 1
    /\ hist.frames = 0 /\ hist.events = 0 /\ localStorage = "2" =>
          game.player.shootCount = 0
    /\ AccuracyPercent(game.player) >= 0
    /\ AccuracyPercent(game.player) <= 200

\* two bullets, the first of which has finished the tutorial, have hit an
\* enemy: shootCount is 1 and the percentage 200
TwoHitsOfOneCountedShot ==
    /\ game.player.accuracy = 2
    /\ game.player.shootCount = 1
    /\ AccuracyPercent(game.player) = 200

-----------------------------------------------------------------------------
(* The radius of an enemy (SpecCombat) *)

\* C37: the radius of an enemy starts at 0 and is between 0 and ENEMY_RADIUS
\* in every frame that is rendered, whatever the time steps.
EnemyRadiusBounded ==
    \A k \in DOMAIN game.enemies :
        /\ game.enemies[k].radius >= 0
        /\ game.enemies[k].radius <= ENEMY_RADIUS

\* what holds: a radius is never below 0 and is less than one time step's
\* growth above ENEMY_RADIUS
EnemyRadiusOvershoots ==
    \A k \in DOMAIN game.enemies :
        /\ game.enemies[k].radius >= 0
        /\ \E adv \in CombatAdvances :
              game.enemies[k].radius < ENEMY_RADIUS + FMul(ENEMY_SPAWN_ANIMATION_SPEED, adv)

\* a frame a tenth of a second after the one before has rendered an enemy
\* that is larger than ENEMY_RADIUS
EnemyDrawnTooLarge ==
    /\ hist.last.kind = "step"
    /\ hist.last.dt = 100
    /\ \E k \in DOMAIN game.enemies :
          /\ game.enemies[k].radius > ENEMY_RADIUS
          /\ game.enemies[k].radius < 2 * ENEMY_RADIUS
          /\ \E k2 \in DOMAIN hist.last.seen.game.enemies :
                hist.last.seen.game.enemies[k2].radius = game.enemies[k].radius

-----------------------------------------------------------------------------
(* Restart (SpecReload) *)

\* the step is a Space key-down on a living player
SpaceWhileAlive ==
    hist'.last.kind = "keydown" /\ hist'.last.code = "Space" /\ game.player.health > 0

\* C38: Space on a dead player gives the game of the beginning: full health,
\* score 0, not shooting, no bullets, enemies or particles, no key held (Space
\* is not recorded), the spawn cooldown and rate at ENEMY_SPAWN_COOLDOWN, not
\* paused, the camera at rest at the origin, the tutorial in the state the
\* stored item stands for. Space on a living player restarts nothing: it
\* toggles paused and is recorded as held.
RestartIsFresh ==
    [][/\ Restarts =>
             /\ game'.player.health = PLAYER_MAX_HEALTH
             /\ game'.player.pos = V2(0, 0)
             /\ ~game'.player.shooting
             /\ game'.player.accuracy = 0
             /\ game'.player.shootCount =
                   IF localStorage = "2" THEN 0 ELSE 0 - 1
             /\ game'.player.trail.trail = <<>>
             /\ ~game'.player.trail.disabled
             /\ game'.score = 0
             /\ game'.mousePos = V2(0, 0)
             /\ game'.bullets = <<>>
             /\ game'.enemies = <<>>
             /\ game'.particles = <<>>
             /\ game'.pressedKeys = {}
             /\ game'.enemySpawnCooldown = ENEMY_SPAWN_COOLDOWN
             /\ game'.enemySpawnRate = ENEMY_SPAWN_COOLDOWN
             /\ ~game'.paused
             /\ renderer'.cameraPos = V2(0, 0)
             /\ renderer'.cameraVel = V2(0, 0)
             /\ game'.tutorial.state = Persisted(localStorage)
             /\ game'.tutorial.popup.text = MessageAt(Persisted(localStorage))
             /\ localStorage' = localStorage
       /\ SpaceWhileAlive =>
             /\ game'.paused = ~game.paused
             /\ game' = [game EXCEPT !.paused = ~game.paused,
                                     !.pressedKeys = game.pressedKeys \cup {"Space"}]
             /\ renderer' = renderer]_vars

-----------------------------------------------------------------------------
(* SpecExpiry: the game with the tutorial finished, under frames that never *)
(* stop coming while the run lasts (the browser calls step() again and      *)
(* again: every step() ends with requestAnimationFrame(step))               *)

MaxExpiryFrames == 34
MaxExpiryEvents == 2
IdleAdvance == (9 * One) \div 2      \* between two frames, nothing in flight
FlightAdvance == One \div 5          \* between two frames, bullets in flight
DeathAdvance == FlightAdvance * SLOW_MOTION

\* the time between two frames: short while bullets are in flight, long
\* enough otherwise for the enemies to reach the player, and longer by the
\* factor of the slow motion once the player is dead
ExpiryAdvances ==
    IF game.player.health <= 0 THEN {DeathAdvance}
    ELSE IF game.bullets # <<>> THEN {FlightAdvance}
    ELSE {IdleAdvance}

InitExpiry == Startup(Renderer2D_new, "2", FALSE, [w |-> 1920, h |-> 1080], 1)

ExpiryFrame == Frame(ExpiryAdvances, ReloadRandoms, MaxExpiryFrames)

NextExpiry ==
    \/ ExpiryFrame
    \/ PointerDown(MaxExpiryEvents)
    \/ PointerUp(MaxExpiryEvents)

\* a call of step() is due: every step() ends with
\* window.requestAnimationFrame(step), and the browser calls what was asked
FrameDue == hist.frames < MaxExpiryFrames /\ host.pendingFrames > 0

\* a step that runs the call of step() that is due: of the steps of
\* NextExpiry, those of ExpiryFrame, the only ones that count a frame. It is
\* enabled exactly when ExpiryFrame is, step() being defined for every state
\* (the first disjunct is an instance of the second, which states it whole).
FrameRun ==
    /\ FrameDue
    /\ \/ /\ hist' = [hist EXCEPT !.frames = @ + 1]
          /\ UNCHANGED <<game, renderer, localStorage, loop, host, cir>>
       \/ hist'.frames = hist.frames + 1

\* a call of step() that is due is eventually run
SpecExpiry ==
    InitExpiry /\ [][NextExpiry]_vars /\ WF_vars(FrameRun)

\* sub is what is left of seq after some of its elements were removed
RECURSIVE IsSubSeqOf(_, _)
IsSubSeqOf(sub, seq) ==
    IF sub = <<>> THEN TRUE
    ELSE IF seq = <<>> THEN FALSE
    ELSE IF Head(sub) = Head(seq) THEN IsSubSeqOf(Tail(sub), Tail(seq))
    ELSE IsSubSeqOf(sub, Tail(seq))

\* the time step of the tick that is being taken
TickDt == EffectiveDt(game, hist'.last.dt)

\* the bullets of after the tick are bullets of before it, in their order and
\* each TickDt older, and at most one new bullet behind them, TickDt old
BulletsAged ==
    LET old == [k \in 1..Len(game.bullets) |->
                   [game.bullets[k] EXCEPT
                      !.pos = V2Add(@, V2Scale(game.bullets[k].vel, TickDt)),
                      !.lifetime = @ - TickDt]]
        after == game'.bullets
        n == Len(after)
    IN /\ \A k \in 1..n : after[k].lifetime > 0
       /\ \/ IsSubSeqOf(after, old)
          \/ /\ n > 0
             /\ after[n].lifetime = BULLET_LIFETIME - TickDt
             /\ IsSubSeqOf(SubSeq(after, 1, n - 1), old)

\* the particles of after the tick are particles of before it, in their order
\* and each TickDt older, and behind them the particles of the bursts of the
\* tick, TickDt old
ParticlesAged ==
    LET old == [k \in 1..Len(game.particles) |->
                   [game.particles[k] EXCEPT
                      !.pos = V2Add(@, V2Scale(game.particles[k].vel, TickDt)),
                      !.lifetime = @ - TickDt]]
        after == game'.particles
        n == Len(after)
    IN /\ \A k \in 1..n : after[k].lifetime > 0
       /\ \E m \in 0..n :
             /\ IsSubSeqOf(SubSeq(after, 1, m), old)
             /\ \A k \in (m + 1)..n :
                   after[k].lifetime \in
                       {rnd.lifetime - TickDt : rnd \in ReloadRandoms}

\* the dots of a disabled trail after the tick are dots of before it, each
\* faded by the rate of the trail times TickDt, and none is added
DisabledTrailFaded(before, after) ==
    before.disabled =>
        /\ after.disabled
        /\ \A k \in 1..Len(after.trail) : after.trail[k].a > 0
        /\ IsSubSeqOf(after.trail,
                      [k \in 1..Len(before.trail) |->
                          [before.trail[k] EXCEPT !.a = @ - FMul(before.rate, TickDt)]])

\* the enemies of after the tick whose trail was disabled before it
TrailsFaded ==
    /\ DisabledTrailFaded(game.player.trail, game'.player.trail)
    /\ \A k \in 1..Len(game'.enemies) :
          game'.enemies[k].trail.disabled =>
              \E j \in 1..Len(game.enemies) :
                  /\ game'.enemies[k].trail.rate = game.enemies[j].trail.rate
                  /\ (game.enemies[j].trail.disabled =>
                         DisabledTrailFaded(game.enemies[j].trail,
                                            game'.enemies[k].trail))

\* frames left for the bullets in flight to expire, and for the particles
\* and the dots of a trail, which last no longer than PARTICLE_MAX_LIFETIME
ExpiryMargin == (BULLET_LIFETIME \div FlightAdvance) + 1
FadeMargin == (PARTICLE_MAX_LIFETIME \div FlightAdvance) + 1

\* C39: under unpaused ticks that keep coming, each after the first (whose
\* time step is 0) with a time step of at least FlightAdvance (at full speed
\* or in the slow motion of death), every
\* tick ages each bullet and each particle by its time step and removes those
\* whose lifetime is used up, so that none outlives BULLET_LIFETIME (bullets)
\* or its drawn lifetime (particles) of accumulated time steps; a disabled
\* trail gets no new dot and loses the faded ones; and so the bullets in
\* flight when the player stops shooting for good, the particles of a burst
\* and the dots of a disabled trail are eventually gone.
EntitiesEventuallyRemoved ==
    /\ [][UnpausedTick =>
            /\ hist.frames > 0 => TickDt >= FlightAdvance
            /\ BulletsAged
            /\ ParticlesAged
            /\ TrailsFaded]_vars
    /\ <>(hist.frames = MaxExpiryFrames)
    /\ (/\ game.bullets # <<>>
        /\ ~game.player.shooting
        /\ hist.events = MaxExpiryEvents
        /\ hist.frames <= MaxExpiryFrames - ExpiryMargin) ~> (game.bullets = <<>>)
    /\ (/\ game.player.health <= 0
        /\ game.particles # <<>>
        /\ hist.frames <= MaxExpiryFrames - FadeMargin) ~> (game.particles = <<>>)
    /\ (/\ game.player.trail.disabled
        /\ hist.frames <= MaxExpiryFrames - FadeMargin)
           ~> (/\ game.player.trail.trail = <<>>
               /\ \A k \in 1..Len(game.enemies) :
                     game.enemies[k].trail.disabled => game.enemies[k].trail.trail = <<>>)

\* the player is dead and its trail disabled, and the latest tick found bullets
\* in flight, none of which hit an enemy, and has left no bullet, no particle
\* and no dot of the trail of the player
LastBulletExpired ==
    /\ hist.last.kind = "step"
    /\ game.player.health <= 0
    /\ Entered.bullets # <<>>
    /\ Spent = {}
    /\ game.bullets = <<>>
    /\ game.particles = <<>>
    /\ game.player.trail.disabled
    /\ game.player.trail.trail = <<>>

-----------------------------------------------------------------------------
(* SpecPopup: the tutorial from its first or its second lesson, on a device *)
(* with a fine or a coarse pointer, under frames that keep coming while the *)
(* run lasts; the player presses KeyD and the pointer                       *)

MaxPopupFrames == 14
MaxPopupEvents == 2
PopupAdvance == One \div 5          \* between two frames
PopupItems == {NULL, "1"}

InitPopup ==
    \E storage \in PopupItems, coarse \in BOOLEAN :
        Startup(Renderer2D_new, storage, coarse, [w |-> 1920, h |-> 1080], 1)

PopupFrame == Frame({PopupAdvance}, ReloadRandoms, MaxPopupFrames)

NextPopup ==
    \/ PopupFrame
    \/ KeyDown({"KeyD"}, MaxPopupEvents)
    \/ PointerDown(MaxPopupEvents)

\* a call of step() is due (see FrameDue)
PopupFrameDue == hist.frames < MaxPopupFrames /\ host.pendingFrames > 0

\* a step that runs the call of step() that is due (see FrameRun)
PopupFrameRun ==
    /\ PopupFrameDue
    /\ \/ /\ hist' = [hist EXCEPT !.frames = @ + 1]
          /\ UNCHANGED <<game, renderer, localStorage, loop, host, cir>>
       \/ hist'.frames = hist.frames + 1

SpecPopup ==
    InitPopup /\ [][NextPopup]_vars /\ WF_vars(PopupFrameRun)

\* the popup shows the message of the state of the tutorial, fully faded in
PopupShown ==
    /\ game.tutorial.popup.text = MessageAt(game.tutorial.state)
    /\ game.tutorial.popup.alpha = One
    /\ game.tutorial.popup.dalpha = 0

\* frames for a fade-out and a fade-in at PopupAdvance each, after a first
\* frame of time step 0
PopupMargin == 2 * ((One \div FMul(TUTORIAL_POPUP_SPEED, PopupAdvance)) + 1) + 1

\* C40: the alpha of the popup is always between 0 and 1; the text of the
\* popup changes only to the message of the state of the tutorial, at the end
\* of a fade-out, so that a player who has moved and shot while the first
\* message was fading out next sees the last message, never the second; a
\* popup that shows the message of the state fully faded in stays so while the
\* state stays; and under ticks that keep coming, each of PopupAdvance, a
\* tutorial that stays in its state eventually shows the message of that state
\* fully faded in.
PopupCatchesUp ==
    /\ [](/\ game.tutorial.popup.alpha >= 0
          /\ game.tutorial.popup.alpha <= One)
    /\ [][/\ game'.tutorial.state >= game.tutorial.state
          /\ game'.tutorial.popup.text # game.tutorial.popup.text =>
                /\ game'.tutorial.popup.text = MessageAt(game'.tutorial.state)
                /\ game'.tutorial.popup.alpha = 0
                /\ game'.tutorial.popup.dalpha = TUTORIAL_POPUP_SPEED
          /\ (PopupShown /\ game'.tutorial.state = game.tutorial.state) =>
                game'.tutorial.popup = game.tutorial.popup]_vars
    /\ \A state \in 0..2 :
          (/\ game.tutorial.state = state
           /\ hist.frames <= MaxPopupFrames - PopupMargin)
              ~> (game.tutorial.state # state \/ PopupShown)
    /\ (/\ game.tutorial.state = TutorialState.Finished
        /\ game.tutorial.popup.text = MessageAt(TutorialState.LearningMovement)
        /\ hist.frames <= MaxPopupFrames - PopupMargin) ~> PopupShown

\* the player has moved and shot, and the first message is still fading out
MovedAndShotDuringFadeOut ==
    /\ game.tutorial.state = TutorialState.Finished
    /\ game.tutorial.popup.text = MessageAt(TutorialState.LearningMovement)
    /\ game.tutorial.popup.dalpha < 0
    /\ game.tutorial.popup.alpha > 0
    /\ hist.frames <= MaxPopupFrames - PopupMargin

====
